---- MODULE Spec2Model ----
(***************************************************************************)
(* rxd: the service lifecycle manager.                                     *)
(*                                                                         *)
(* RunContinuousManager.Manage (src/service_manager.go:44-131) drives one  *)
(* service through Init -> Idle -> Run -> Stop -> Init ... until its       *)
(* service context is cancelled.  One Manage task runs per service; every  *)
(* service context is a child of the daemon's root context.                *)
(*                                                                         *)
(* intracom: the topic the daemon publishes service states on, in its two *)
(* designs: requests funnelled to the broadcaster through a channel        *)
(* (src/unnamed/part_004), and a subscriber map under a mutex              *)
(* (src/intracom/topic.go).                                                *)
(*                                                                         *)
(* The watches of a service context (src/service_context.go:112-324): one  *)
(* goroutine per Watch* call, between its subscription to the state topic  *)
(* and the stream handed to the caller.                                    *)
(*                                                                         *)
(* The contexts derived from a service context with WithParent and         *)
(* WithFields (src/unnamed/part_000:37-78), and the first generation of    *)
(* the manager (src/manager.go, src/service_config.go): one startService   *)
(* goroutine per service and the goroutine that runs manager.shutdown().   *)
(***************************************************************************)
EXTENDS Naturals, FiniteSets, Sequences, TLC

\* ------------------------------------------------------------------ inputs

\* The services registered with the daemon (DaemonService.Name).
Services == {"s1", "s2"}

\* Saturation point of the observation counters: a counter stops at MaxCount.
MaxCount == 2

\* State (src/unnamed/part_005:8-21).
StateInit == "init"
StateIdle == "idle"
StateRun == "run"
StateStop == "stop"
StateExit == "exit"
States == {StateInit, StateIdle, StateRun, StateStop, StateExit}

\* RunPolicy (src/service_options.go:8-15).
RunUntilStoppedPolicy == "until_stopped"
RunOnceIfSuccessPolicy == "run_once_success"
RunOncePolicy == "run_once_unbiased"
RunPolicies == {RunUntilStoppedPolicy, RunOnceIfSuccessPolicy, RunOncePolicy}

\* Capacity of the log channel the service contexts send their records on.
LogBufferSize == 1

\* log.LevelError (src/unnamed/part_001:72-86: iota - 1 from levelUnknown).
LevelError == 3

\* The messages Manage logs: err.Error() of a callback's error, and
\* "recovered from a panic: ...".
MsgCallbackError == "callback error"
MsgRecoveredPanic == "recovered from a panic"

\* No record sent yet.
LogNone == "none"

\* DaemonLog{Name, Level, Message} as serviceContext.Log builds it.
DaemonLog(s, level, message) == [Name |-> s, Level |-> level, Message |-> message]

\* The goroutines that call Subscribe, Unsubscribe and Close on the topic.
Callers == {"c1", "c2"}

\* The consumer group names the callers use.
Groups == {"g1", "g2"}

\* The number of operations on the topic in all: the calls the callers make
\* and the messages the publisher sends.
MaxOps == 3

\* requestC := make(chan any, 1) (src/unnamed/part_004:51).
RequestBufferSize == 1

\* The errors of the topic (src/unnamed/part_004:84-137, src/intracom/topic.go:40-85).
NoErr == "nil"
ErrTopicClosed == "topic already closed"
ErrGroupExists == "consumer group already exists"
ErrGroupUnknown == "consumer group does not exist"
ErrAlreadyClosed == "topic already closed (Close)"
ErrRequestTimeout == "request timed out"
ErrResponseTimeout == "response timed out"

\* Between two calls; before the first return.
NoCall == [op |-> "none"]
NoReturn == [op |-> "none"]

VARIABLES
    rootCancelled,  \* the daemon's root context has been cancelled
    runPolicy,      \* [s]: ServiceOpts.RunPolicy the service was registered with
    pc,             \* [s]: where the Manage task of s stands
    state,          \* [s]: Manage's local `state`
    hasStopped,     \* [s]: Manage's local `hasStopped`
    timeout,        \* [s]: Manage's timer: armed, fired (value waiting in timeout.C), drained, stopped
    published,      \* [s]: the state last passed to updateState(s, _); "none" before the first call
    logC,           \* the log channel: the records sent and not yet taken by the log sink
    lastLog,        \* [s]: the last record s sent with sctx.Log
    obs             \* [s]: observations of the run so far (history, read by no action guard)

\* The intracom topic (src/unnamed/part_004, and its mutex-based predecessor
\* src/intracom/topic.go) and the goroutines that call it.
VARIABLES
    closed,         \* topic.closed (atomic.Bool)
    subscribers,    \* topic.subscribers: [group] -> the subscriber registered, 0 for none
    subs,           \* the subscribers created so far, in creation order: subs[i] is subscriber i
    cpc,            \* [c]: where caller c stands inside its call
    call,           \* [c]: the call caller c is making (NoCall between calls)
    ncalls,         \* the number of calls the callers have started
    ret,            \* what the last call that returned has returned, and to whom
    requestC,       \* topic.requestC: [buf: requests waiting, closed]
    publishC,       \* topic.publishC: [closed]; unbuffered
    responseC,      \* [c]: the responseC of c's call, buffered 1
    bpc,            \* where the broadcaster task stands
    bsends,         \* the send goroutines the broadcaster has started and not yet joined
    taken,          \* the number of messages the broadcaster has taken from the publish channel
    ppc,            \* where the publisher stands
    th              \* observations of the topic (history, read by no action guard)

\* The watches of a service context (src/service_context.go:112-324): one
\* goroutine per watch, between the state topic and the stream it returns.
VARIABLES
    wconf,          \* [w]: the call that made the watch: kind, action, target, names, filter
    wpc,            \* [w]: where the goroutine of watch w stands
    wcancel,        \* [w]: cancel() of watchCtx has been called
    wsub,           \* [w]: `sub`, the subscriber whose channel Subscribe returned; 0 for none
    wstates,        \* [w]: `states`, the snapshot received last
    wout,           \* [w]: the map built from it (interestedServices, filteredInterests)
    stream,         \* [w]: `ch`, the stream returned to the consumer: [buf, closed], buffered 1
    wgot            \* [w]: what the consumer has read from the stream, in order

\* The first manager (src/manager.go) and its ServiceConfig (src/service_config.go).
VARIABLES
    mctx,           \* m.ctx has been cancelled
    lcfg,           \* [s]: service.cfg: isStopped, isShutdown, and the close() calls made on ShutdownC and StateC
    lpc,            \* [s]: where the startService goroutine of s stands
    svcResp,        \* [s]: startService's local `svcResp`: [Error, NextState]
    shut,           \* the goroutine start() launches for shutdown(): [pc, i], i the index into m.services
    mstart          \* where start() stands

\* The contexts derived from a service context (src/unnamed/part_000:37-78).
VARIABLES
    cancelled,      \* the context.Context values whose cancel function has been called
    scs             \* the serviceContext values made so far, in creation order

managerVars == <<rootCancelled, runPolicy, pc, state, hasStopped, timeout,
                 published, logC, lastLog, obs>>

topicVars == <<closed, subscribers, subs, cpc, call, ncalls, ret,
               requestC, publishC, responseC, bpc, bsends, taken, ppc, th>>

watchVars == <<wconf, wpc, wcancel, wsub, wstates, wout, stream, wgot>>

legacyVars == <<mctx, lcfg, lpc, svcResp, shut, mstart>>

contextVars == <<cancelled, scs>>

vars == <<rootCancelled, runPolicy, pc, state, hasStopped, timeout,
          published, logC, lastLog, obs,
          closed, subscribers, subs, cpc, call, ncalls, ret,
          requestC, publishC, responseC, bpc, bsends, taken, ppc, th,
          wconf, wpc, wcancel, wsub, wstates, wout, stream, wgot,
          mctx, lcfg, lpc, svcResp, shut, mstart,
          cancelled, scs>>

\* ------------------------------------------------------------ observations

Inc(n) == IF n < MaxCount THEN n + 1 ELSE n

NoCallback == "none"

ObsInit ==
    [ exitPubs        |-> 0,          \* updateState(s, Exit) calls
      pubAfterExit    |-> FALSE,      \* an updateState call followed updateState(s, Exit)
      panicked        |-> FALSE,      \* a callback panicked
      stopsAfterPanic |-> 0,          \* Stop callbacks invoked after the panic
      cycleReached    |-> FALSE,      \* Idle or Run was invoked since the last Init invocation
      cycleStops      |-> 0,          \* Stop callbacks invoked since the last Init invocation
      lastCb          |-> NoCallback, \* the callback invoked last
      lastErr         |-> FALSE,      \* the callback that returned last returned an error
      leftLoop        |-> FALSE,      \* the loop was left (through cancellation)
      exitLastCb      |-> NoCallback, \* lastCb at the moment the loop was left
      postStops       |-> 0,          \* Stop callbacks invoked after the loop was left
      runCalls        |-> 0,          \* Run callbacks invoked
      lastRunOk       |-> FALSE,      \* the last Run returned nil
      okRunStop       |-> FALSE ]     \* a Run returned nil and the Stop right after it returned nil

\* ------------------------------------------------------- service context

\* newServiceContextWithCancel: ctx, cancel := context.WithCancel(parent), the
\* parent being the daemon's root context: sctx.Done() of every service is
\* closed once the root context is cancelled.
Done(s) == rootCancelled

\* serviceContext.Log: sc.logC <- DaemonLog{...}, a send that blocks while the
\* channel is full.
Log(s, level, message) ==
    /\ Len(logC) < LogBufferSize
    /\ logC' = Append(logC, DaemonLog(s, level, message))
    /\ lastLog' = [lastLog EXCEPT ![s] = DaemonLog(s, level, message)]

\* What invoking callback cb adds to the observations o.
ObsInvoke(o, cb) ==
    [o EXCEPT
        !.lastCb = cb,
        !.stopsAfterPanic = IF o.panicked /\ cb = StateStop THEN Inc(@) ELSE @,
        !.cycleReached = IF cb = StateInit THEN FALSE ELSE @ \/ cb \in {StateIdle, StateRun},
        !.cycleStops = IF cb = StateInit THEN 0 ELSE IF cb = StateStop THEN Inc(@) ELSE @,
        !.postStops = IF o.leftLoop /\ cb = StateStop THEN Inc(@) ELSE @,
        !.runCalls = IF cb = StateRun THEN Inc(@) ELSE @,
        !.lastRunOk = IF cb = StateInit THEN FALSE ELSE @]

\* What callback cb returning (err: with a non-nil error) adds to the observations o.
ObsReturn(o, cb, err) ==
    [o EXCEPT
        !.lastErr = err,
        !.lastRunOk = IF cb = StateRun THEN ~err ELSE IF cb = StateStop THEN FALSE ELSE @,
        !.okRunStop = @ \/ (cb = StateStop /\ o.lastRunOk /\ ~err)]

\* What updateState(s, st) adds to the observations o.
ObsPublish(o, st) ==
    [o EXCEPT
        !.exitPubs = IF st = StateExit THEN Inc(@) ELSE @,
        !.pubAfterExit = @ \/ o.exitPubs > 0]

\* ----------------------------------------- RunContinuousManager.Manage

\* Mutant: the loop does not stop at StateExit.
LoopCondition_Forever(st) == TRUE

\* for state != StateExit
LoopCondition(st) == st # StateExit

\* Mutant: the Done case asks for Stop and never for Exit.
StateOnDone_Stop == StateStop

\* case <-sctx.Done(): state = StateExit; continue
StateOnDone == StateExit

\* Mutant: an Idle error does not skip Run.
NextState_IdleErrorRuns(st, err) ==
    CASE st = StateInit -> IF err THEN StateStop ELSE StateIdle
      [] st = StateIdle -> StateRun
      [] st = StateRun  -> StateStop
      [] st = StateStop -> StateInit
      [] OTHER          -> st

\* switch state { ... }: the state that follows callback st returning
\* (err: with a non-nil error).  The switch has no case for StateExit and no
\* default: any other state is left as it is.
NextState(st, err) ==
    CASE st = StateInit -> IF err THEN StateStop ELSE StateIdle
      [] st = StateIdle -> IF err THEN StateStop ELSE StateRun
      [] st = StateRun  -> StateStop
      [] st = StateStop -> StateInit
      [] OTHER          -> st

\* Mutant: the Stop case forgets hasStopped = true.
HasStoppedAfter_NeverSet(st, hs) == hs

\* hasStopped once callback st has returned: the Stop case sets it, the
\* others leave it as the select's timeout case left it (false).
HasStoppedAfter(st, hs) == IF st = StateStop THEN TRUE ELSE hs

\* Mutant: Stop is always invoked after the loop.
NeedsFinalStop_Always(hs) == TRUE

\* if !hasStopped { ds.Runner.Stop(sctx) }
NeedsFinalStop(hs) == ~hs

\* The callback the Manage task of s is inside of, if any.
Running(s) ==
    IF pc[s] = "callback" THEN state[s]
    ELSE IF pc[s] = "finalstop" THEN StateStop
    ELSE NoCallback

\* The daemon has started one Manage task for each service of `started`:
\* timeout := time.NewTimer(m.StartupDelay); state = StateInit; hasStopped = false.
Start(started) ==
    /\ rootCancelled = FALSE
    /\ runPolicy \in {f \in [Services -> RunPolicies] :
                         \A s \in Services \ started : f[s] = RunUntilStoppedPolicy}
    /\ pc = [s \in Services |-> IF s \in started THEN "loop" ELSE "unregistered"]
    /\ state = [s \in Services |-> StateInit]
    /\ hasStopped = [s \in Services |-> FALSE]
    /\ timeout = [s \in Services |-> "armed"]
    /\ published = [s \in Services |-> "none"]
    /\ logC = <<>>
    /\ lastLog = [s \in Services |-> LogNone]
    /\ obs = [s \in Services |-> ObsInit]

\* --------------------------------------------------- the topic: shared parts

\* What is observed of the topic: the subscribers whose delivery channel a
\* Subscribe has returned, the number of Close calls that returned nil, and
\* the subscribers that were in the map when the broadcaster ranged over it
\* for the last message.
TopicObsInit == [handedOut |-> {}, closeNil |-> 0, snapshot |-> {}]

\* BufferSize: 1, BufferPolicy: intracom.DropOldest, the configuration every
\* watch subscribes with (src/service_context.go:123-124).
SubscriberBufferSize == 1

\* newSubscriber(conf): a subscriber of `group` with an open delivery channel
\* to which nothing has been sent; `buf` is what its channel holds.
NewSubscriber(group) == [group |-> group, closes |-> 0, sent |-> <<>>, buf |-> <<>>]

\* The channel of a subscriber after msg is sent to it under DropOldest: with
\* the buffer full the oldest message gives way to the new one.
DropOldest(buf, msg) ==
    IF Len(buf) < SubscriberBufferSize THEN Append(buf, msg) ELSE Append(Tail(buf), msg)

\* The subscribers registered in the map.
Registered == {subscribers[g] : g \in {h \in Groups : subscribers[h] # 0}}

\* sub.close() on every subscriber of `ids`.
CloseSubs(ss, ids) ==
    [i \in DOMAIN ss |-> IF i \in ids THEN [ss[i] EXCEPT !.closes = @ + 1] ELSE ss[i]]

\* sub.send(msg) on every subscriber of `ids`.
SendSubs(ss, ids, msg) ==
    [i \in DOMAIN ss |->
        IF i \in ids
        THEN [ss[i] EXCEPT !.sent = Append(@, msg),
                           !.buf = IF ss[i].closes = 0 THEN DropOldest(@, msg) ELSE @]
        ELSE ss[i]]

\* What a return of caller c adds to the observations.
ObsTopicReturn(o, r) ==
    [o EXCEPT !.handedOut = IF r.op = "Subscribe" /\ r.err = NoErr THEN @ \cup {r.ch} ELSE @,
              !.closeNil = IF r.op = "Close" /\ r.err = NoErr THEN Inc(@) ELSE @]

\* Caller c starts a call: its context is fresh and so is its responseC.
Enter(c, cl, at) ==
    /\ cpc[c] = "idle"
    /\ ncalls + taken < MaxOps
    /\ ncalls' = ncalls + 1
    /\ call' = [call EXCEPT ![c] = cl]
    /\ cpc' = [cpc EXCEPT ![c] = at]
    /\ UNCHANGED <<ret, th>>

\* The call of caller c returns channel ch (0 for nil) and error err.
Return(c, op, ch, err) ==
    /\ cpc' = [cpc EXCEPT ![c] = "idle"]
    /\ call' = [call EXCEPT ![c] = NoCall]
    /\ ret' = [to |-> c, op |-> op, ch |-> ch, err |-> err]
    /\ th' = ObsTopicReturn(th, [op |-> op, ch |-> ch, err |-> err])

\* A call that fails its first check returns at once.
Reject(c, op, err) ==
    /\ cpc[c] = "idle"
    /\ ncalls + taken < MaxOps
    /\ ncalls' = ncalls + 1
    /\ Return(c, op, 0, err)

\* No topic has been created: no caller, no broadcaster, no publisher.
\* A watch is the goroutine of one Watch* call; it subscribes to the state
\* topic as the caller of the same name.
Watches == Callers

NoConf == [kind |-> "none"]

\* ServiceStates is a map from service name to state; the empty map.
NoStates == [n \in {} |-> StateRun]

\* No Watch* call has been made.
NoWatch ==
    /\ wconf = [w \in Watches |-> NoConf]
    /\ wpc = [w \in Watches |-> "none"]
    /\ wcancel = [w \in Watches |-> FALSE]
    /\ wsub = [w \in Watches |-> 0]
    /\ wstates = [w \in Watches |-> NoStates]
    /\ wout = [w \in Watches |-> NoStates]
    /\ stream = [w \in Watches |-> [buf |-> <<>>, closed |-> FALSE]]
    /\ wgot = [w \in Watches |-> <<>>]

\* ------------------------------------------------------- the first manager

\* m.services, in the order AddService appended them.
LegacyServices == <<"s1", "s2">>

\* RetryUntilSuccessPolicy (src/manager.go:64); RunOncePolicy (57) and
\* RunUntilStoppedPolicy (src/service_config.go:83) are the policies above.
RetryUntilSuccessPolicy == "retry_until_success"

\* NewResponse(err, state).
NewResponse(err, next) == [Error |-> err, NextState |-> next]

\* NewServiceConfig (src/service_config.go:78-98): the default run policy,
\* the channels open (closed no times), isStopped true, isShutdown false.
NewServiceConfig ==
    [runPolicy |-> RunUntilStoppedPolicy, isStopped |-> TRUE, isShutdown |-> FALSE,
     ShutdownC |-> 0, StateC |-> 0]

\* No manager of the first generation.
NoLegacy ==
    /\ mctx = FALSE
    /\ lcfg = [s \in Services |-> NewServiceConfig]
    /\ lpc = [s \in Services |-> "none"]
    /\ svcResp = [s \in Services |-> NewResponse(FALSE, StateInit)]
    /\ shut = [pc |-> "none", i |-> 1]
    /\ mstart = "none"

\* ------------------------------------------------------ derived contexts

\* The context.Context values: the parent a service context is made from,
\* the context newServiceContextWithCancel derives from it, a context made
\* apart from both, and a child of the service's own context.
CtxRoot == "root"
CtxService == "service"
CtxApart == "apart"
CtxChild == "child"
Contexts == {CtxRoot, CtxService, CtxApart, CtxChild}

\* No service context.
NoContexts ==
    /\ cancelled = {}
    /\ scs = <<>>

NoTopic ==
    /\ closed = FALSE
    /\ subscribers = [g \in Groups |-> 0]
    /\ subs = <<>>
    /\ cpc = [c \in Callers |-> "idle"]
    /\ call = [c \in Callers |-> NoCall]
    /\ ncalls = 0
    /\ ret = NoReturn
    /\ requestC = [buf |-> <<>>, closed |-> FALSE]
    /\ publishC = [closed |-> FALSE]
    /\ responseC = [c \in Callers |-> <<>>]
    /\ bpc = "none"
    /\ bsends = {}
    /\ taken = 0
    /\ ppc = "none"
    /\ th = TopicObsInit

\* A daemon with one service registered.
Init == Start({"s1"}) /\ NoTopic /\ NoWatch /\ NoLegacy /\ NoContexts

\* Loop head with state != StateExit: updateState(ds.Name, state), then wait in
\* the select.
EnterState(s) ==
    /\ pc[s] = "loop"
    /\ LoopCondition(state[s])
    /\ published' = [published EXCEPT ![s] = state[s]]
    /\ obs' = [obs EXCEPT ![s] = ObsPublish(@, state[s])]
    /\ pc' = [pc EXCEPT ![s] = "select"]
    /\ UNCHANGED <<rootCancelled, runPolicy, state, hasStopped, timeout, logC, lastLog>>
    /\ UNCHANGED <<topicVars, watchVars, legacyVars, contextVars>>

\* select, case <-sctx.Done().
SelectDone(s) ==
    /\ pc[s] = "select"
    /\ Done(s)
    /\ state' = [state EXCEPT ![s] = StateOnDone]
    /\ pc' = [pc EXCEPT ![s] = "loop"]
    /\ UNCHANGED <<rootCancelled, runPolicy, hasStopped, timeout, published,
                   logC, lastLog, obs>>
    /\ UNCHANGED <<topicVars, watchVars, legacyVars, contextVars>>

\* select, case <-timeout.C: hasStopped is reset and the callback of `state`
\* is invoked.  When Done() is closed too, Go's select takes either case.
SelectTimeout(s) ==
    /\ pc[s] = "select"
    /\ timeout[s] = "fired"
    /\ timeout' = [timeout EXCEPT ![s] = "drained"]
    /\ hasStopped' = [hasStopped EXCEPT ![s] = FALSE]
    /\ obs' = [obs EXCEPT ![s] = ObsInvoke(@, state[s])]
    /\ pc' = [pc EXCEPT ![s] = "callback"]
    /\ UNCHANGED <<rootCancelled, runPolicy, state, published, logC, lastLog>>
    /\ UNCHANGED <<topicVars, watchVars, legacyVars, contextVars>>

\* The callback of `state` returns nil or an error: an error is logged (the
\* task waits in Log while the log channel is full), the switch picks the
\* next state, the timer is reset for it.
CallbackReturn(s, err) ==
    /\ pc[s] = "callback"
    /\ IF err THEN Log(s, LevelError, MsgCallbackError) ELSE UNCHANGED <<logC, lastLog>>
    /\ state' = [state EXCEPT ![s] = NextState(state[s], err)]
    /\ hasStopped' = [hasStopped EXCEPT ![s] = HasStoppedAfter(state[s], @)]
    /\ timeout' = [timeout EXCEPT ![s] = "armed"]
    /\ obs' = [obs EXCEPT ![s] = ObsReturn(@, state[s], err)]
    /\ pc' = [pc EXCEPT ![s] = "loop"]
    /\ UNCHANGED <<rootCancelled, runPolicy, published>>
    /\ UNCHANGED <<topicVars, watchVars, legacyVars, contextVars>>

\* What the deferred functions of Manage do when a callback panics: recover(),
\* log the panic at Error level, timeout.Stop(); Manage returns.
Recover(s) ==
    /\ Log(s, LevelError, MsgRecoveredPanic)
    /\ timeout' = [timeout EXCEPT ![s] = "stopped"]
    /\ obs' = [obs EXCEPT ![s].panicked = TRUE]
    /\ pc' = [pc EXCEPT ![s] = "returned"]

\* A Manage without the deferred recover(): the panic of a callback unwinds the
\* goroutine and the Go runtime ends the process, every Manage task with it.
CallbackPanic_Unrecovered(s) ==
    /\ pc[s] = "callback"
    /\ obs' = [obs EXCEPT ![s].panicked = TRUE]
    /\ pc' = [t \in Services |-> IF pc[t] \in {"unregistered", "returned"} THEN pc[t] ELSE "crashed"]
    /\ UNCHANGED <<rootCancelled, runPolicy, state, hasStopped, timeout, published,
                   logC, lastLog>>
    /\ UNCHANGED <<topicVars, watchVars, legacyVars, contextVars>>

\* The callback of `state` panics.
CallbackPanic(s) ==
    /\ pc[s] = "callback"
    /\ Recover(s)
    /\ UNCHANGED <<rootCancelled, runPolicy, state, hasStopped, published>>
    /\ UNCHANGED <<topicVars, watchVars, legacyVars, contextVars>>

\* Loop head with state = StateExit: the loop is left; Stop is invoked unless
\* hasStopped.
LeaveLoop(s) ==
    /\ pc[s] = "loop"
    /\ ~LoopCondition(state[s])
    /\ LET left == [obs[s] EXCEPT !.leftLoop = TRUE, !.exitLastCb = obs[s].lastCb]
       IN IF NeedsFinalStop(hasStopped[s])
          THEN /\ obs' = [obs EXCEPT ![s] = ObsInvoke(left, StateStop)]
               /\ pc' = [pc EXCEPT ![s] = "finalstop"]
          ELSE /\ obs' = [obs EXCEPT ![s] = left]
               /\ pc' = [pc EXCEPT ![s] = "exit"]
    /\ UNCHANGED <<rootCancelled, runPolicy, state, hasStopped, timeout,
                   published, logC, lastLog>>
    /\ UNCHANGED <<topicVars, watchVars, legacyVars, contextVars>>

\* The Stop invoked after the loop returns nil or an error (logged).
FinalStopReturn(s, err) ==
    /\ pc[s] = "finalstop"
    /\ IF err THEN Log(s, LevelError, MsgCallbackError) ELSE UNCHANGED <<logC, lastLog>>
    /\ obs' = [obs EXCEPT ![s] = ObsReturn(@, StateStop, err)]
    /\ pc' = [pc EXCEPT ![s] = "exit"]
    /\ UNCHANGED <<rootCancelled, runPolicy, state, hasStopped, timeout, published>>
    /\ UNCHANGED <<topicVars, watchVars, legacyVars, contextVars>>

\* The Stop invoked after the loop panics.
FinalStopPanic(s) ==
    /\ pc[s] = "finalstop"
    /\ Recover(s)
    /\ UNCHANGED <<rootCancelled, runPolicy, state, hasStopped, published>>
    /\ UNCHANGED <<topicVars, watchVars, legacyVars, contextVars>>

\* updateState(ds.Name, StateExit); Manage returns (deferred timeout.Stop()).
PublishExit(s) ==
    /\ pc[s] = "exit"
    /\ published' = [published EXCEPT ![s] = StateExit]
    /\ obs' = [obs EXCEPT ![s] = ObsPublish(@, StateExit)]
    /\ timeout' = [timeout EXCEPT ![s] = "stopped"]
    /\ pc' = [pc EXCEPT ![s] = "returned"]
    /\ UNCHANGED <<rootCancelled, runPolicy, state, hasStopped, logC, lastLog>>
    /\ UNCHANGED <<topicVars, watchVars, legacyVars, contextVars>>

\* The timer of s expires: a value waits in timeout.C.  Only the select reads
\* timeout.C, so the expiry is taken while the task waits there.
TimerFire(s) ==
    /\ pc[s] = "select"
    /\ timeout[s] = "armed"
    /\ timeout' = [timeout EXCEPT ![s] = "fired"]
    /\ UNCHANGED <<rootCancelled, runPolicy, pc, state, hasStopped, published,
                   logC, lastLog, obs>>
    /\ UNCHANGED <<topicVars, watchVars, legacyVars, contextVars>>

\* The daemon cancels the root context (shutdown).
CancelRoot ==
    /\ ~rootCancelled
    /\ rootCancelled' = TRUE
    /\ UNCHANGED <<runPolicy, pc, state, hasStopped, timeout, published,
                   logC, lastLog, obs>>
    /\ UNCHANGED <<topicVars, watchVars, legacyVars, contextVars>>

\* The daemon's log sink takes the next record from the log channel.
LogConsume ==
    /\ logC # <<>>
    /\ logC' = Tail(logC)
    /\ UNCHANGED <<rootCancelled, runPolicy, pc, state, hasStopped, timeout, published,
                   lastLog, obs>>
    /\ UNCHANGED <<topicVars, watchVars, legacyVars, contextVars>>

Manage(s) ==
    \/ EnterState(s)
    \/ SelectDone(s)
    \/ SelectTimeout(s)
    \/ \E err \in BOOLEAN : CallbackReturn(s, err)
    \/ CallbackPanic(s)
    \/ LeaveLoop(s)
    \/ \E err \in BOOLEAN : FinalStopReturn(s, err)
    \/ FinalStopPanic(s)
    \/ PublishExit(s)

Next ==
    \/ \E s \in Services : Manage(s)
    \/ \E s \in Services : TimerFire(s)
    \/ CancelRoot
    \/ LogConsume

Spec == Init /\ [][Next]_vars

\* Scheduling: a Manage task that can take a step eventually takes one (the Go
\* scheduler runs every runnable goroutine, and a callback that is running
\* eventually returns or panics), and a select that is entered again and again
\* with Done() closed eventually takes the Done case (Go's select picks among
\* the ready cases uniformly at random).  The log sink keeps taking records
\* until every Manage task has returned (the log channel is closed last).
Fairness ==
    /\ \A s \in Services : WF_vars(Manage(s)) /\ SF_vars(SelectDone(s))
    /\ WF_vars(LogConsume)

FairSpec == Spec /\ Fairness

\* A daemon with every service registered, each under the default run policy:
\* one Manage task per service, all children of the one root context.
InitAll ==
    /\ Start(Services)
    /\ NoTopic
    /\ NoWatch
    /\ NoLegacy
    /\ NoContexts
    /\ runPolicy = [s \in Services |-> RunUntilStoppedPolicy]

DaemonSpec == InitAll /\ [][Next]_vars

\* ------------------------------------------------------------------ claims

Callbacks == {StateInit, StateIdle, StateRun, StateStop}

\* The services a Manage task was started for.
Started == {s \in Services : pc[s] # "unregistered"}

\* This step invokes callback cb of s.
Invoked(s, cb) == Running(s) # cb /\ Running(s)' = cb

\* This step is a callback of s (inside the loop) returning nil or an error.
ReturnedInLoop(s) == pc[s] = "callback" /\ pc'[s] = "loop"

\* This step is updateState(s, StateExit).
ExitPublished(s) == obs'[s].exitPubs # obs[s].exitPubs

\* C1 (as claimed): once a callback of s has panicked and Manage has returned,
\* the panic was logged at Error level, Stop was invoked exactly once after the
\* panic and updateState(s, Exit) was published.
C1_PanicRunsStopAndPublishesExit ==
    \A s \in Started :
        (obs[s].panicked /\ pc[s] = "returned") =>
            /\ lastLog[s] = DaemonLog(s, LevelError, MsgRecoveredPanic)
            /\ obs[s].stopsAfterPanic = 1
            /\ published[s] = StateExit

\* C2: with no callback panicking, updateState(s, Exit) is called at most once,
\* no updateState call for s follows it, it is the call Manage ends with, and a
\* Manage that has returned has made it exactly once.
C2_ExitPublishedOnceAndLast ==
    \A s \in Started :
        ~obs[s].panicked =>
            /\ obs[s].exitPubs <= 1
            /\ ~obs[s].pubAfterExit
            /\ (obs[s].exitPubs = 1) <=> (pc[s] = "returned")
            /\ (pc[s] = "returned") => (published[s] = StateExit)

C2_Witness ==
    \E s \in Started :
        /\ pc[s] = "returned" /\ ~obs[s].panicked
        /\ obs[s].exitPubs = 1 /\ obs[s].runCalls = MaxCount

\* C3: in a cycle (from one Init invocation to the next) in which Idle or Run
\* was invoked, Stop has been invoked exactly once when Init is invoked again
\* and when Exit is published, and Stop is never invoked twice in a cycle.
C3_StopOncePerCycle ==
    [][\A s \in Started :
          /\ obs'[s].cycleStops <= 1
          /\ ((Invoked(s, StateInit) \/ ExitPublished(s)) /\ obs[s].cycleReached)
                => obs[s].cycleStops = 1]_vars

C3_Witness ==
    \E s \in Started :
        /\ pc[s] = "callback" /\ state[s] = StateInit
        /\ obs[s].runCalls >= 1 /\ obs[s].cycleStops = 0

\* C4: a callback that returns leaves `state` as the transition table says,
\* never at Exit, and `state` is Exit only once the context is cancelled.
TransitionTable ==
    { <<StateInit, FALSE, StateIdle>>, <<StateInit, TRUE, StateStop>>,
      <<StateIdle, FALSE, StateRun>>,  <<StateIdle, TRUE, StateStop>>,
      <<StateRun,  FALSE, StateStop>>, <<StateRun,  TRUE, StateStop>>,
      <<StateStop, FALSE, StateInit>>, <<StateStop, TRUE, StateInit>> }

C4_TransitionTable ==
    [][\A s \in Started :
          /\ ReturnedInLoop(s) =>
                <<state[s], obs'[s].lastErr, state'[s]>> \in TransitionTable
          /\ (state'[s] = StateExit) => Done(s)']_vars

C4_Witness ==
    \E s \in Started :
        /\ pc[s] = "select" /\ ~Done(s)
        /\ obs[s].lastCb = StateIdle /\ obs[s].lastErr
        /\ state[s] = StateStop /\ published[s] = StateStop

\* C5 (as claimed): every callback invocation, the Stop after the loop
\* included, directly follows the updateState call for the callback's state.
C5_CallbackStatePublishedFirst ==
    [][\A s \in Started : \A cb \in Callbacks :
          Invoked(s, cb) => published[s] = cb]_vars

\* C6: when the loop is left on cancellation, Stop is invoked after it exactly
\* once if the last callback executed was not Stop (also when none was), and
\* not at all if it was Stop; Exit is published only after that.
C6_FinalStopIffNotStopped ==
    \A s \in Started :
        /\ (obs[s].leftLoop /\ pc[s] \in {"exit", "returned"}) =>
              obs[s].postStops = (IF obs[s].exitLastCb = StateStop THEN 0 ELSE 1)
        /\ (pc[s] = "finalstop") =>
              (obs[s].postStops = 1 /\ obs[s].exitLastCb # StateStop)
        /\ (obs[s].exitPubs > 0) => obs[s].leftLoop

C6_Witness ==
    \E s \in Started :
        /\ pc[s] = "returned" /\ obs[s].leftLoop
        /\ obs[s].exitLastCb = StateStop /\ obs[s].postStops = 0
        /\ published[s] = StateExit

\* C7 (as claimed): no Init, Idle or Run callback is invoked once the context
\* is cancelled.
C7_NoCallbackOnceCancelled ==
    [][\A s \in Started : \A cb \in {StateInit, StateIdle, StateRun} :
          Done(s) => ~Invoked(s, cb)]_vars

\* C8: once the root context is cancelled, every Manage task eventually
\* returns, having published Exit unless a callback panicked.
C8_CancelLeadsToExit ==
    \A s \in Services :
        (rootCancelled /\ s \in Started) ~>
            (pc[s] = "returned" /\ (obs[s].panicked \/ published[s] = StateExit))

C8_Witness ==
    \E s \in Started :
        /\ rootCancelled /\ pc[s] = "returned" /\ ~obs[s].panicked
        /\ published[s] = StateExit /\ obs[s].postStops = 1
        /\ obs[s].exitLastCb = StateRun

\* C9 (as claimed): under RunOncePolicy the Run callback is invoked at most once.
C9_RunOnceRunsOnce ==
    \A s \in Started :
        runPolicy[s] = RunOncePolicy => obs[s].runCalls <= 1

\* C10 (as claimed): under RunOnceIfSuccessPolicy no Init, Idle or Run callback
\* is invoked once a Run has returned nil and the Stop after it has returned nil.
C10_NoCallbackAfterSuccessfulRun ==
    [][\A s \in Started : \A cb \in {StateInit, StateIdle, StateRun} :
          (runPolicy[s] = RunOnceIfSuccessPolicy /\ obs[s].okRunStop)
              => ~Invoked(s, cb)]_vars

\* ------------------------------------- the topic of src/unnamed/part_004

\* subscribeRequest / unsubscribeRequest / closeRequest of caller c.
Request(c) ==
    [op |-> call[c].op, group |-> call[c].group, errIfExists |-> call[c].errIfExists,
     from |-> c]

\* NewTopic: publishC and requestC made, the broadcaster started; the callers
\* and the publisher hold the topic.
NewTopic ==
    /\ closed = FALSE
    /\ subscribers = [g \in Groups |-> 0]
    /\ subs = <<>>
    /\ cpc = [c \in Callers |-> "idle"]
    /\ call = [c \in Callers |-> NoCall]
    /\ ncalls = 0
    /\ ret = NoReturn
    /\ requestC = [buf |-> <<>>, closed |-> FALSE]
    /\ publishC = [closed |-> FALSE]
    /\ responseC = [c \in Callers |-> <<>>]
    /\ bpc = "recv"
    /\ bsends = {}
    /\ taken = 0
    /\ ppc = "ready"
    /\ th = TopicObsInit

\* Subscribe(ctx, conf), first check: a closed topic is refused; otherwise the
\* call makes its responseC and goes on to send its request.  `ctx` tells
\* whether the caller's context can become done ("cancellable") or never does
\* ("background").
SubscribeLoad(c, g, eie, ctx) ==
    /\ IF closed
       THEN Reject(c, "Subscribe", ErrTopicClosed)
       ELSE Enter(c, [op |-> "Subscribe", group |-> g, errIfExists |-> eie,
                      ctx |-> ctx], "request")
    /\ responseC' = [responseC EXCEPT ![c] = <<>>]
    /\ UNCHANGED <<closed, subscribers, subs, requestC, publishC, bpc, bsends, taken, ppc>>
    /\ UNCHANGED managerVars

\* Unsubscribe(consumer, ch), first check; its context is
\* context.WithTimeout(context.Background(), 2*time.Second).
UnsubscribeLoad(c, g) ==
    /\ IF closed
       THEN Reject(c, "Unsubscribe", ErrTopicClosed)
       ELSE Enter(c, [op |-> "Unsubscribe", group |-> g, errIfExists |-> FALSE,
                      ctx |-> "timeout"], "request")
    /\ responseC' = [responseC EXCEPT ![c] = <<>>]
    /\ UNCHANGED <<closed, subscribers, subs, requestC, publishC, bpc, bsends, taken, ppc>>
    /\ UNCHANGED managerVars

\* select { case <-ctx.Done(): ...; case t.requestC <- request: }, the Done
\* case: a context that can become done (the caller cancels the one it passed
\* to Subscribe; the 2 s of Unsubscribe elapse) does, and the select takes it.
RequestTimeout(c) ==
    /\ cpc[c] = "request"
    /\ call[c].op \in {"Subscribe", "Unsubscribe"}
    /\ call[c].ctx # "background"
    /\ Return(c, call[c].op, 0, ErrRequestTimeout)
    /\ UNCHANGED <<closed, subscribers, subs, ncalls,
                   requestC, publishC, responseC, bpc, bsends, taken, ppc>>
    /\ UNCHANGED managerVars

\* The same select, the send case with room in requestC.
RequestSend(c) ==
    /\ cpc[c] = "request"
    /\ call[c].op \in {"Subscribe", "Unsubscribe"}
    /\ ~requestC.closed
    /\ Len(requestC.buf) < RequestBufferSize
    /\ requestC' = [requestC EXCEPT !.buf = Append(@, Request(c))]
    /\ cpc' = [cpc EXCEPT ![c] = "response"]
    /\ UNCHANGED <<closed, subscribers, subs, call, ncalls, ret,
                   publishC, responseC, bpc, bsends, taken, ppc, th>>
    /\ UNCHANGED managerVars

\* The same select, the send case on a requestC that Close has closed: a send
\* on a closed channel panics.
RequestSendClosed(c) ==
    /\ cpc[c] = "request"
    /\ call[c].op \in {"Subscribe", "Unsubscribe"}
    /\ requestC.closed
    /\ cpc' = [cpc EXCEPT ![c] = "panicked"]
    /\ UNCHANGED <<closed, subscribers, subs, call, ncalls, ret,
                   requestC, publishC, responseC, bpc, bsends, taken, ppc, th>>
    /\ UNCHANGED managerVars

\* select { case <-ctx.Done(): ...; case res := <-responseC: }, the Done case.
ResponseTimeout(c) ==
    /\ cpc[c] = "response"
    /\ call[c].op \in {"Subscribe", "Unsubscribe"}
    /\ call[c].ctx # "background"
    /\ Return(c, call[c].op, 0, ErrResponseTimeout)
    /\ UNCHANGED <<closed, subscribers, subs, ncalls,
                   requestC, publishC, responseC, bpc, bsends, taken, ppc>>
    /\ UNCHANGED managerVars

\* The same select, the response case: the call returns what the broadcaster
\* answered.
ResponseReceive(c) ==
    /\ cpc[c] = "response"
    /\ call[c].op \in {"Subscribe", "Unsubscribe"}
    /\ responseC[c] # <<>>
    /\ Return(c, call[c].op, Head(responseC[c]).ch, Head(responseC[c]).err)
    /\ responseC' = [responseC EXCEPT ![c] = <<>>]
    /\ UNCHANGED <<closed, subscribers, subs, ncalls,
                   requestC, publishC, bpc, bsends, taken, ppc>>
    /\ UNCHANGED managerVars

\* Close(), the one-shot guard: closed.Swap(true).
CloseSwap(c) ==
    /\ IF closed
       THEN Reject(c, "Close", ErrAlreadyClosed) /\ UNCHANGED closed
       ELSE /\ closed' = TRUE
            /\ Enter(c, [op |-> "Close", group |-> "", errIfExists |-> FALSE,
                         ctx |-> "background"], "request")
    /\ responseC' = [responseC EXCEPT ![c] = <<>>]
    /\ UNCHANGED <<subscribers, subs, requestC, publishC, bpc, bsends, taken, ppc>>
    /\ UNCHANGED managerVars

\* Close(): t.requestC <- closeRequest{...}, a plain blocking send.  Only the
\* one Close that won the Swap closes requestC, and it does so later.
CloseRequest(c) ==
    /\ cpc[c] = "request"
    /\ call[c].op = "Close"
    /\ Len(requestC.buf) < RequestBufferSize
    /\ requestC' = [requestC EXCEPT !.buf = Append(@, Request(c))]
    /\ cpc' = [cpc EXCEPT ![c] = "response"]
    /\ UNCHANGED <<closed, subscribers, subs, call, ncalls, ret,
                   publishC, responseC, bpc, bsends, taken, ppc, th>>
    /\ UNCHANGED managerVars

\* Close(): <-responseC, then close(t.requestC), close(t.publishC), return nil.
CloseResponse(c) ==
    /\ cpc[c] = "response"
    /\ call[c].op = "Close"
    /\ responseC[c] # <<>>
    /\ responseC' = [responseC EXCEPT ![c] = <<>>]
    /\ requestC' = [requestC EXCEPT !.closed = TRUE]
    /\ publishC' = [publishC EXCEPT !.closed = TRUE]
    /\ Return(c, "Close", 0, NoErr)
    /\ UNCHANGED <<closed, subscribers, subs, ncalls, bpc, bsends, taken, ppc>>
    /\ UNCHANGED managerVars

\* The answer of the broadcaster to request r, and the map and the
\* subscribers it leaves.
Served(r) ==
    LET g == r.group
        new == Len(subs) + 1
    IN CASE r.op = "Subscribe" /\ subscribers[g] # 0 /\ r.errIfExists ->
                [ch |-> 0, err |-> ErrGroupExists, map |-> subscribers, ss |-> subs]
         [] r.op = "Subscribe" /\ subscribers[g] # 0 /\ ~r.errIfExists ->
                [ch |-> subscribers[g], err |-> NoErr, map |-> subscribers, ss |-> subs]
         [] r.op = "Subscribe" /\ subscribers[g] = 0 ->
                [ch |-> new, err |-> NoErr, map |-> [subscribers EXCEPT ![g] = new],
                 ss |-> Append(subs, NewSubscriber(g))]
         [] r.op = "Unsubscribe" /\ subscribers[g] # 0 ->
                [ch |-> 0, err |-> NoErr, map |-> [subscribers EXCEPT ![g] = 0],
                 ss |-> CloseSubs(subs, {subscribers[g]})]
         [] r.op = "Unsubscribe" /\ subscribers[g] = 0 ->
                [ch |-> 0, err |-> ErrGroupUnknown, map |-> subscribers, ss |-> subs]
         [] r.op = "Close" ->
                [ch |-> 0, err |-> NoErr, map |-> [h \in Groups |-> 0],
                 ss |-> CloseSubs(subs, Registered)]

\* The broadcaster takes the next request from requestC, applies it to the
\* subscriber map it owns and answers on the request's responseC (buffered:
\* the answer never blocks, also when the caller has given up).  A close
\* request ends the broadcaster.
BroadcasterServe ==
    /\ bpc = "recv"
    /\ requestC.buf # <<>>
    /\ LET r == Head(requestC.buf)
           a == Served(r)
       IN /\ subscribers' = a.map
          /\ subs' = a.ss
          \* requestC holds one request, so a caller that waits for its answer has
          \* sent the request being served; any other request is one its caller
          \* gave up on, and its answer stays in a responseC nobody reads.
          /\ responseC' = IF cpc[r.from] = "response"
                          THEN [responseC EXCEPT ![r.from] = <<[ch |-> a.ch, err |-> a.err]>>]
                          ELSE responseC
          /\ bpc' = IF r.op = "Close" THEN "stopped" ELSE bpc
    /\ requestC' = [requestC EXCEPT !.buf = Tail(@)]
    /\ UNCHANGED <<closed, cpc, call, ncalls, ret, publishC, bsends, taken, ppc, th>>
    /\ UNCHANGED managerVars

\* The broadcaster stops servicing its channels for good (it blocks on a
\* subscriber with BufferPolicy Block that nobody drains).
BroadcasterStall ==
    /\ bpc = "recv"
    /\ bpc' = "stuck"
    /\ UNCHANGED <<closed, subscribers, subs, cpc, call, ncalls, ret,
                   requestC, publishC, responseC, bsends, taken, ppc, th>>
    /\ UNCHANGED managerVars

\* A publisher sends the next message on PublishChannel() and the broadcaster
\* takes it and sends it to every subscriber.
Publish ==
    /\ ppc = "ready"
    /\ ncalls + taken < MaxOps
    /\ ~publishC.closed
    /\ bpc = "recv"
    /\ taken' = taken + 1
    /\ subs' = SendSubs(subs, Registered, taken + 1)
    /\ UNCHANGED <<closed, subscribers, cpc, call, ncalls, ret,
                   requestC, publishC, responseC, bpc, bsends, ppc, th>>
    /\ UNCHANGED managerVars

\* A publisher sends on PublishChannel() after Close has closed it: a send on
\* a closed channel panics.
PublishClosed ==
    /\ ppc = "ready"
    /\ ncalls + taken < MaxOps
    /\ publishC.closed
    /\ ppc' = "panicked"
    /\ UNCHANGED <<closed, subscribers, subs, cpc, call, ncalls, ret,
                   requestC, publishC, responseC, bpc, bsends, taken, th>>
    /\ UNCHANGED managerVars

TopicInit == Start({}) /\ NewTopic /\ NoWatch /\ NoLegacy /\ NoContexts

TopicNext ==
    \/ \E c \in Callers, g \in Groups, eie \in BOOLEAN, ctx \in {"background", "cancellable"} :
           SubscribeLoad(c, g, eie, ctx) /\ UNCHANGED <<watchVars, legacyVars, contextVars>>
    \/ \E c \in Callers, g \in Groups : UnsubscribeLoad(c, g) /\ UNCHANGED <<watchVars, legacyVars, contextVars>>
    \/ \E c \in Callers : RequestTimeout(c) /\ UNCHANGED <<watchVars, legacyVars, contextVars>>
    \/ \E c \in Callers : RequestSend(c) /\ UNCHANGED <<watchVars, legacyVars, contextVars>>
    \/ \E c \in Callers : RequestSendClosed(c) /\ UNCHANGED <<watchVars, legacyVars, contextVars>>
    \/ \E c \in Callers : ResponseTimeout(c) /\ UNCHANGED <<watchVars, legacyVars, contextVars>>
    \/ \E c \in Callers : ResponseReceive(c) /\ UNCHANGED <<watchVars, legacyVars, contextVars>>
    \/ \E c \in Callers : CloseSwap(c) /\ UNCHANGED <<watchVars, legacyVars, contextVars>>
    \/ \E c \in Callers : CloseRequest(c) /\ UNCHANGED <<watchVars, legacyVars, contextVars>>
    \/ \E c \in Callers : CloseResponse(c) /\ UNCHANGED <<watchVars, legacyVars, contextVars>>
    \/ BroadcasterServe /\ UNCHANGED <<watchVars, legacyVars, contextVars>>
    \/ BroadcasterStall /\ UNCHANGED <<watchVars, legacyVars, contextVars>>
    \/ Publish /\ UNCHANGED <<watchVars, legacyVars, contextVars>>
    \/ PublishClosed /\ UNCHANGED <<watchVars, legacyVars, contextVars>>

TopicSpec == TopicInit /\ [][TopicNext]_vars

\* ------------------------------------ the topic of src/intracom/topic.go
\*
\* The predecessor of the topic above: the callers themselves change the
\* subscriber map, under t.mu.  Every section of code that holds t.mu is one
\* action; what runs outside the lock (the closed flag, the send goroutines)
\* interleaves freely.

\* Subscribe(conf), first check: closed.Load().
MuSubscribeLoad(c, g, eie) ==
    /\ IF closed
       THEN Reject(c, "Subscribe", ErrTopicClosed)
       ELSE Enter(c, [op |-> "Subscribe", group |-> g, errIfExists |-> eie,
                      ctx |-> "background"], "lookup")
    /\ UNCHANGED <<closed, subscribers, subs, requestC, publishC, responseC,
                   bpc, bsends, taken, ppc>>
    /\ UNCHANGED managerVars

\* Subscribe(conf) under RLock: the group exists and the call returns its
\* channel, or GroupExists; or it does not and the call goes on, unlocked.
MuSubscribeLookup(c) ==
    /\ cpc[c] = "lookup"
    /\ LET sub == subscribers[call[c].group]
       IN IF sub # 0
          THEN IF call[c].errIfExists
               THEN Return(c, "Subscribe", 0, ErrGroupExists)
               ELSE Return(c, "Subscribe", sub, NoErr)
          ELSE /\ cpc' = [cpc EXCEPT ![c] = "insert"]
               /\ UNCHANGED <<call, ret, th>>
    /\ UNCHANGED <<closed, subscribers, subs, ncalls, requestC, publishC, responseC,
                   bpc, bsends, taken, ppc>>
    /\ UNCHANGED managerVars

\* Subscribe(conf): sub = newSubscriber(conf); under Lock,
\* t.subscribers[group] = sub; return sub.ch.
MuSubscribeInsert(c) ==
    /\ cpc[c] = "insert"
    /\ subs' = Append(subs, NewSubscriber(call[c].group))
    /\ subscribers' = [subscribers EXCEPT ![call[c].group] = Len(subs) + 1]
    /\ Return(c, "Subscribe", Len(subs) + 1, NoErr)
    /\ UNCHANGED <<closed, ncalls, requestC, publishC, responseC, bpc, bsends, taken, ppc>>
    /\ UNCHANGED managerVars

\* Unsubscribe(consumer), first check: closed.Load().
MuUnsubscribeLoad(c, g) ==
    /\ IF closed
       THEN Reject(c, "Unsubscribe", ErrTopicClosed)
       ELSE Enter(c, [op |-> "Unsubscribe", group |-> g, errIfExists |-> FALSE,
                      ctx |-> "background"], "locked")
    /\ UNCHANGED <<closed, subscribers, subs, requestC, publishC, responseC,
                   bpc, bsends, taken, ppc>>
    /\ UNCHANGED managerVars

\* An Unsubscribe that closes the subscriber and leaves it in the map.
MuUnsubscribeLocked_NoDelete(c) ==
    /\ cpc[c] = "locked"
    /\ call[c].op = "Unsubscribe"
    /\ LET sub == subscribers[call[c].group]
       IN IF sub = 0
          THEN /\ Return(c, "Unsubscribe", 0, ErrGroupUnknown)
               /\ UNCHANGED <<subscribers, subs>>
          ELSE /\ subs' = CloseSubs(subs, {sub})
               /\ UNCHANGED subscribers
               /\ Return(c, "Unsubscribe", 0, NoErr)
    /\ UNCHANGED <<closed, ncalls, requestC, publishC, responseC, bpc, bsends, taken, ppc>>
    /\ UNCHANGED managerVars

\* Unsubscribe(consumer) under Lock: an unknown group is an error; a known
\* one is closed and deleted.
MuUnsubscribeLocked(c) ==
    /\ cpc[c] = "locked"
    /\ call[c].op = "Unsubscribe"
    /\ LET sub == subscribers[call[c].group]
       IN IF sub = 0
          THEN /\ Return(c, "Unsubscribe", 0, ErrGroupUnknown)
               /\ UNCHANGED <<subscribers, subs>>
          ELSE /\ subs' = CloseSubs(subs, {sub})
               /\ subscribers' = [subscribers EXCEPT ![call[c].group] = 0]
               /\ Return(c, "Unsubscribe", 0, NoErr)
    /\ UNCHANGED <<closed, ncalls, requestC, publishC, responseC, bpc, bsends, taken, ppc>>
    /\ UNCHANGED managerVars

\* A Close whose guard never refuses.
MuCloseSwap_NoGuard(c) ==
    /\ closed' = TRUE
    /\ Enter(c, [op |-> "Close", group |-> "", errIfExists |-> FALSE,
                 ctx |-> "background"], "locked")
    /\ UNCHANGED <<subscribers, subs, requestC, publishC, responseC,
                   bpc, bsends, taken, ppc>>
    /\ UNCHANGED managerVars

\* Close(), the one-shot guard: closed.Swap(true).
MuCloseSwap(c) ==
    /\ IF closed
       THEN Reject(c, "Close", ErrAlreadyClosed) /\ UNCHANGED closed
       ELSE /\ closed' = TRUE
            /\ Enter(c, [op |-> "Close", group |-> "", errIfExists |-> FALSE,
                         ctx |-> "background"], "locked")
    /\ UNCHANGED <<subscribers, subs, requestC, publishC, responseC,
                   bpc, bsends, taken, ppc>>
    /\ UNCHANGED managerVars

\* Close() under Lock: every subscriber in the map is closed and deleted.
MuCloseLocked(c) ==
    /\ cpc[c] = "locked"
    /\ call[c].op = "Close"
    /\ subs' = CloseSubs(subs, Registered)
    /\ subscribers' = [g \in Groups |-> 0]
    /\ Return(c, "Close", 0, NoErr)
    /\ UNCHANGED <<closed, ncalls, requestC, publishC, responseC, bpc, bsends, taken, ppc>>
    /\ UNCHANGED managerVars

\* The orders in which `for _, sub := range t.subscribers` can visit the
\* subscribers S: Go leaves the iteration order of a map unspecified.
Orders(S) ==
    {q \in [1..Cardinality(S) -> S] : \A i, j \in DOMAIN q : i # j => q[i] # q[j]}

\* What the goroutine started in iteration i can find in `sub` when it runs
\* sub.send(msg).  The closure captures the loop variable: where the loop has
\* one `sub` for all its iterations (Go before 1.22) the goroutine reads it
\* unsynchronised and finds the subscriber of its own iteration or of a later
\* one; where each iteration has its own (Go 1.22 on) it finds its own.
Captures(n) == {f \in [1..n -> 1..n] : \A i \in 1..n : f[i] >= i}

\* The goroutines `go func() { sub.send(msg); wg.Done() }()` of one range over
\* the map in order q, capturing as f tells.
SendGoroutines(q, f, msg) ==
    {[k |-> i, sub |-> q[f[i]], msg |-> msg] : i \in DOMAIN q}

\* A broadcast that takes the next message without wg.Wait().
BroadcastTake_NoWait ==
    /\ bpc = "recv"
    /\ ncalls + taken < MaxOps
    /\ taken' = taken + 1
    /\ \E q \in Orders(Registered) : \E f \in Captures(Cardinality(Registered)) :
           bsends' = bsends \cup SendGoroutines(q, f, taken + 1)
    /\ th' = [th EXCEPT !.snapshot = Registered]
    /\ UNCHANGED <<closed, subscribers, subs, cpc, call, ncalls, ret,
                   requestC, publishC, responseC, bpc, ppc>>
    /\ UNCHANGED managerVars

\* broadcast: every goroutine of the last message has called wg.Done(), so
\* wg.Wait() returns and the next message is taken from publishC (a publisher
\* sends it); under RLock one goroutine is started for each subscriber in the
\* map.
BroadcastTake ==
    /\ bpc = "recv"
    /\ bsends = {}
    /\ ncalls + taken < MaxOps
    /\ taken' = taken + 1
    /\ \E q \in Orders(Registered) : \E f \in Captures(Cardinality(Registered)) :
           bsends' = SendGoroutines(q, f, taken + 1)
    /\ th' = [th EXCEPT !.snapshot = Registered]
    /\ UNCHANGED <<closed, subscribers, subs, cpc, call, ncalls, ret,
                   requestC, publishC, responseC, bpc, ppc>>
    /\ UNCHANGED managerVars

\* One of the goroutines runs: sub.send(msg); wg.Done().
BroadcastSend ==
    /\ \E g \in bsends :
           /\ subs' = SendSubs(subs, {g.sub}, g.msg)
           /\ bsends' = bsends \ {g}
    /\ UNCHANGED <<closed, subscribers, cpc, call, ncalls, ret,
                   requestC, publishC, responseC, bpc, taken, ppc, th>>
    /\ UNCHANGED managerVars

MuTopicInit == Start({}) /\ NewTopic /\ NoWatch /\ NoLegacy /\ NoContexts

MuTopicNext ==
    \/ \E c \in Callers, g \in Groups, eie \in BOOLEAN : MuSubscribeLoad(c, g, eie) /\ UNCHANGED <<watchVars, legacyVars, contextVars>>
    \/ \E c \in Callers : MuSubscribeLookup(c) /\ UNCHANGED <<watchVars, legacyVars, contextVars>>
    \/ \E c \in Callers : MuSubscribeInsert(c) /\ UNCHANGED <<watchVars, legacyVars, contextVars>>
    \/ \E c \in Callers, g \in Groups : MuUnsubscribeLoad(c, g) /\ UNCHANGED <<watchVars, legacyVars, contextVars>>
    \/ \E c \in Callers : MuUnsubscribeLocked(c) /\ UNCHANGED <<watchVars, legacyVars, contextVars>>
    \/ \E c \in Callers : MuCloseSwap(c) /\ UNCHANGED <<watchVars, legacyVars, contextVars>>
    \/ \E c \in Callers : MuCloseLocked(c) /\ UNCHANGED <<watchVars, legacyVars, contextVars>>
    \/ BroadcastTake /\ UNCHANGED <<watchVars, legacyVars, contextVars>>
    \/ BroadcastSend /\ UNCHANGED <<watchVars, legacyVars, contextVars>>

MuTopicSpec == MuTopicInit /\ [][MuTopicNext]_vars

\* ------------------------------- the watches of src/service_context.go

\* ch := make(chan ServiceStates, 1) (src/service_context.go:113).
StreamBufferSize == 1

\* ServiceAction: Entering, Exiting, and any other value of the type.
Entering == "entering"
Exiting == "exiting"
OtherAction == "other"
ServiceActions == {Entering, Exiting, OtherAction}

\* ServiceFilter.Mode.
None == "none"
Include == "include"
Exclude == "exclude"
FilterModes == {None, Include, Exclude}

\* The longest list of names a Watch*Services call is given.
MaxNames == 2

\* The lists `services ...string` can be: names may repeat.
NameLists == UNION {[1..n -> Services] : n \in 0..MaxNames}

\* The states a service is seen in by the snapshots the watches are fed.
SnapshotStates == {StateRun, StateStop, StateExit}

\* The snapshots: a state for some of the services.
Snapshots == UNION {[D -> SnapshotStates] : D \in SUBSET Services}

\* The service whose context the watches are made from (sc.name).
Owner == "s1"

\* The three Watch* calls with their arguments.
AllServicesConf(action, target, names) ==
    [kind |-> "AllServices", action |-> action, target |-> target, names |-> names,
     filter |-> [Mode |-> None, Names |-> {}]]

AnyServicesConf(action, target, names) ==
    [kind |-> "AnyServices", action |-> action, target |-> target, names |-> names,
     filter |-> [Mode |-> None, Names |-> {}]]

AllStatesConf(filter) ==
    [kind |-> "AllStates", action |-> Entering, target |-> StateInit, names |-> <<>>,
     filter |-> filter]

\* A switch whose default branch treats the action as Entering.
Satisfies_DefaultKeeps(action, target, states, name) ==
    /\ name \in DOMAIN states
    /\ IF action = Exiting THEN states[name] # target ELSE states[name] = target

\* The switch on action in the loop over the names: does `name` go into
\* interestedServices?
Satisfies(action, target, states, name) ==
    /\ name \in DOMAIN states
    /\ IF action = Entering THEN states[name] = target
       ELSE IF action = Exiting THEN states[name] # target
       ELSE FALSE

\* interestedServices after the loop over `services`.
Interested(action, target, names, states) ==
    LET keep == {n \in {names[i] : i \in DOMAIN names} : Satisfies(action, target, states, n)}
    IN [n \in keep |-> states[n]]

\* A length test that also asks for a name.
AllServicesEmits_NonEmpty(interested, names) ==
    Len(names) > 0 /\ Cardinality(DOMAIN interested) = Len(names)

\* WatchAllServices: if len(interestedServices) == len(services).
AllServicesEmits(interested, names) == Cardinality(DOMAIN interested) = Len(names)

\* The length test of WatchAllServices in the place of that of WatchAnyServices.
AnyServicesEmits_All(interested, names) == Cardinality(DOMAIN interested) = Len(names)

\* WatchAnyServices: if len(interestedServices) > 0.
AnyServicesEmits(interested, names) == Cardinality(DOMAIN interested) > 0

\* A filter with Include and Exclude exchanged.
Filtered_Swapped(filter, states) ==
    IF filter.Names = {} \/ filter.Mode = None
    THEN states
    ELSE LET keep == {n \in DOMAIN states :
                         \/ filter.Mode = Include /\ n \notin filter.Names
                         \/ filter.Mode = Exclude /\ n \in filter.Names}
         IN [n \in keep |-> states[n]]

\* WatchAllStates: the map sent for `states` under `filter`.
Filtered(filter, states) ==
    IF filter.Names = {} \/ filter.Mode = None
    THEN states
    ELSE LET keep == {n \in DOMAIN states :
                         \/ filter.Mode = Include /\ n \in filter.Names
                         \/ filter.Mode = Exclude /\ n \notin filter.Names}
         IN [n \in keep |-> states[n]]

\* The map a watch builds from a received snapshot.
Out(conf, states) ==
    IF conf.kind = "AllStates"
    THEN Filtered(conf.filter, states)
    ELSE Interested(conf.action, conf.target, conf.names, states)

\* Whether the watch goes on to send it.
Emits(conf, states) ==
    IF conf.kind = "AllStates" THEN TRUE
    ELSE IF conf.kind = "AllServices"
    THEN AllServicesEmits(Out(conf, states), conf.names)
    ELSE AnyServicesEmits(Out(conf, states), conf.names)

\* ctx.Done() of a context that all the watches of a service share.
WatchDone_Shared(w) == (\E v \in Watches : wcancel[v]) \/ Done(Owner)

\* ctx.Done() of watchCtx, a child of the service context made by the call
\* (watchCtx, cancel := context.WithCancel(sc)).
WatchDone(w) == wcancel[w] \/ Done(Owner)

\* A Watch* call: ch and watchCtx are made, the goroutine is started, and
\* (ch, cancel) is returned.
WatchCall(w, conf) ==
    /\ wpc[w] = "none"
    /\ wconf' = [wconf EXCEPT ![w] = conf]
    /\ wpc' = [wpc EXCEPT ![w] = "subscribe"]
    /\ UNCHANGED <<wcancel, wsub, wstates, wout, stream, wgot>>

\* The cancelFn a Watch* call returned is called.
WatchCancel(w) ==
    /\ wpc[w] # "none"
    /\ ~wcancel[w]
    /\ wcancel' = [wcancel EXCEPT ![w] = TRUE]
    /\ UNCHANGED <<wconf, wpc, wsub, wstates, wout, stream, wgot>>

\* A watch whose inner select has no ctx.Done() case.
WatchReturnDone_OuterOnly(w) ==
    /\ wpc[w] = "select"
    /\ WatchDone(w)
    /\ wpc' = [wpc EXCEPT ![w] = "returned"]
    /\ wcancel' = [wcancel EXCEPT ![w] = TRUE]
    /\ wstates' = [wstates EXCEPT ![w] = NoStates]
    /\ wout' = [wout EXCEPT ![w] = NoStates]
    /\ UNCHANGED <<wconf, wsub, stream, wgot>>

\* case <-ctx.Done(): return, in the outer or the inner select; the deferred
\* cancel() runs.  Nothing else is deferred.
WatchReturnDone(w) ==
    /\ wpc[w] \in {"select", "send"}
    /\ WatchDone(w)
    /\ wpc' = [wpc EXCEPT ![w] = "returned"]
    /\ wcancel' = [wcancel EXCEPT ![w] = TRUE]
    /\ wstates' = [wstates EXCEPT ![w] = NoStates]
    /\ wout' = [wout EXCEPT ![w] = NoStates]
    /\ UNCHANGED <<wconf, wsub, stream, wgot>>

\* case states, open := <-sub with open: the map is built from `states`, and
\* the watch goes on to the inner select or back to the outer one.
Filter(w, states) ==
    /\ wstates' = [wstates EXCEPT ![w] = IF Emits(wconf[w], states) THEN states ELSE NoStates]
    /\ wout' = [wout EXCEPT ![w] = IF Emits(wconf[w], states) THEN Out(wconf[w], states)
                                   ELSE NoStates]
    /\ wpc' = [wpc EXCEPT ![w] = IF Emits(wconf[w], states) THEN "send" ELSE "select"]
    /\ UNCHANGED <<wconf, wcancel, wsub, stream, wgot>>

\* A watch that stops at its first emission: it returns after the send.
WatchSend_Stop(w) ==
    /\ wpc[w] = "send"
    /\ Len(stream[w].buf) < StreamBufferSize
    /\ stream' = [stream EXCEPT ![w].buf = Append(@, wout[w])]
    /\ wpc' = [wpc EXCEPT ![w] = "returned"]
    /\ wstates' = [wstates EXCEPT ![w] = NoStates]
    /\ wout' = [wout EXCEPT ![w] = NoStates]
    /\ UNCHANGED <<wconf, wcancel, wsub, wgot>>

\* case ch <- out, in the inner select: the stream has room.
WatchSend(w) ==
    /\ wpc[w] = "send"
    /\ Len(stream[w].buf) < StreamBufferSize
    /\ stream' = [stream EXCEPT ![w].buf = Append(@, wout[w])]
    /\ wpc' = [wpc EXCEPT ![w] = "select"]
    /\ wstates' = [wstates EXCEPT ![w] = NoStates]
    /\ wout' = [wout EXCEPT ![w] = NoStates]
    /\ UNCHANGED <<wconf, wcancel, wsub, wgot>>

\* The consumer of the stream receives from it.
ConsumerRead(w) ==
    /\ stream[w].buf # <<>>
    /\ wgot' = [wgot EXCEPT ![w] = <<Head(stream[w].buf)>>]
    /\ stream' = [stream EXCEPT ![w].buf = Tail(@)]
    /\ UNCHANGED <<wconf, wpc, wcancel, wsub, wstates, wout>>

\* The calls the filtering of the watches is checked with.
Confs ==
    {AllServicesConf(a, t, l) : a \in ServiceActions, t \in SnapshotStates, l \in NameLists}
    \cup {AnyServicesConf(a, t, l) : a \in ServiceActions, t \in SnapshotStates, l \in NameLists}
    \cup {AllStatesConf([Mode |-> m, Names |-> N]) : m \in FilterModes, N \in SUBSET Services}

\* One watch of every kind of call, subscribed; the snapshots it receives
\* are any the topic can deliver.
FilterInit ==
    /\ Start({})
    /\ NoTopic
    /\ NoLegacy
    /\ NoContexts
    /\ wconf \in [Watches -> Confs \cup {NoConf}]
    /\ \A w \in Watches : (wconf[w] = NoConf) = (w # "c1")
    /\ wpc = [w \in Watches |-> IF w = "c1" THEN "select" ELSE "none"]
    /\ wcancel = [w \in Watches |-> FALSE]
    /\ wsub = [w \in Watches |-> 0]
    /\ wstates = [w \in Watches |-> NoStates]
    /\ wout = [w \in Watches |-> NoStates]
    /\ stream = [w \in Watches |-> [buf |-> <<>>, closed |-> FALSE]]
    /\ wgot = [w \in Watches |-> <<>>]

\* case states, open := <-sub: a snapshot arrives.
WatchReceiveStates(w, states) ==
    /\ wpc[w] = "select"
    /\ Filter(w, states)

FilterNext ==
    \/ \E w \in Watches, states \in Snapshots :
           WatchReceiveStates(w, states) /\ UNCHANGED <<managerVars, topicVars, legacyVars, contextVars>>
    \/ \E w \in Watches : WatchSend(w) /\ UNCHANGED <<managerVars, topicVars, legacyVars, contextVars>>
    \/ \E w \in Watches : ConsumerRead(w) /\ UNCHANGED <<managerVars, topicVars, legacyVars, contextVars>>
    \/ \E w \in Watches : WatchCancel(w) /\ UNCHANGED <<managerVars, topicVars, legacyVars, contextVars>>
    \/ \E w \in Watches : WatchReturnDone(w) /\ UNCHANGED <<managerVars, topicVars, legacyVars, contextVars>>

FilterSpec == FilterInit /\ [][FilterNext]_vars

\* The message a watch logs when Subscribe returns an error.
MsgSubscribeFailed == "failed to subscribe to internal states"

\* The states the owner's manager publishes, in the order of its lifecycle.
Lifecycle == <<StateInit, StateIdle, StateRun, StateStop, StateExit>>

\* The snapshot that is the m-th message of the state topic.
Published(m) == [n \in {Owner} |-> Lifecycle[((m - 1) % Len(Lifecycle)) + 1]]

\* internalAllStatesConsumer(sc.name) and internalStatesConsumer(action,
\* target, sc.name): one group for the WatchAllStates watches of a service,
\* one for its Watch*Services watches of the same action and target.
WatchGroup(conf) == IF conf.kind = "AllStates" THEN "g1" ELSE "g2"

\* The calls the life of a watch is checked with: a WatchAllStates call that
\* forwards every snapshot, and a WatchAllServices and a WatchAnyServices call
\* with the same action and target.
WatchConfs ==
    {AllStatesConf([Mode |-> None, Names |-> {}]),
     AllServicesConf(Entering, StateInit, <<>>),
     AnyServicesConf(Entering, StateInit, <<Owner>>)}

\* What a step of sc.icStates.Subscribe means to the watch that calls it:
\* once the call has returned, the watch holds the channel and enters its
\* loop, or has an error to log.
Subscribed(w) ==
    /\ wpc[w] = "subscribe"
    /\ IF cpc'[w] = "idle"
       THEN /\ wsub' = [wsub EXCEPT ![w] = ret'.ch]
            /\ wpc' = [wpc EXCEPT ![w] = IF ret'.err = NoErr THEN "select" ELSE "log"]
       ELSE UNCHANGED <<wsub, wpc>>
    /\ UNCHANGED <<wconf, wcancel, wstates, wout, stream, wgot>>
    /\ UNCHANGED <<legacyVars, contextVars>>

\* A watch that returns on a Subscribe error without logging it.
WatchLogReturn_Silent(w) ==
    /\ wpc[w] = "log"
    /\ wpc' = [wpc EXCEPT ![w] = "returned"]
    /\ wcancel' = [wcancel EXCEPT ![w] = TRUE]
    /\ UNCHANGED <<wconf, wsub, wstates, wout, stream, wgot>>
    /\ UNCHANGED managerVars
    /\ UNCHANGED topicVars
    /\ UNCHANGED <<legacyVars, contextVars>>

\* if err != nil { sc.Log(...); return }; the deferred cancel() runs.
WatchLogReturn(w) ==
    /\ wpc[w] = "log"
    /\ Log(Owner, LevelError, MsgSubscribeFailed)
    /\ wpc' = [wpc EXCEPT ![w] = "returned"]
    /\ wcancel' = [wcancel EXCEPT ![w] = TRUE]
    /\ UNCHANGED <<wconf, wsub, wstates, wout, stream, wgot>>
    /\ UNCHANGED <<rootCancelled, runPolicy, pc, state, hasStopped, timeout, published, obs>>
    /\ UNCHANGED topicVars
    /\ UNCHANGED <<legacyVars, contextVars>>

\* case states, open := <-sub with a message in the channel.
WatchReceive(w) ==
    /\ wpc[w] = "select"
    /\ subs[wsub[w]].buf # <<>>
    /\ subs' = [subs EXCEPT ![wsub[w]].buf = Tail(@)]
    /\ Filter(w, Published(Head(subs[wsub[w]].buf)))
    /\ UNCHANGED <<closed, subscribers, cpc, call, ncalls, ret, requestC, publishC,
                   responseC, bpc, bsends, taken, ppc, th>>
    /\ UNCHANGED managerVars
    /\ UNCHANGED <<legacyVars, contextVars>>

\* case states, open := <-sub with the channel closed and drained:
\* if !open { return }; the deferred cancel() runs.
WatchReceiveClosed(w) ==
    /\ wpc[w] = "select"
    /\ subs[wsub[w]].closes > 0
    /\ subs[wsub[w]].buf = <<>>
    /\ wpc' = [wpc EXCEPT ![w] = "returned"]
    /\ wcancel' = [wcancel EXCEPT ![w] = TRUE]
    /\ UNCHANGED <<wconf, wsub, wstates, wout, stream, wgot>>
    /\ UNCHANGED <<managerVars, topicVars, legacyVars, contextVars>>

\* A service context with its state topic (src/intracom/topic.go) and no
\* watch yet; no manager is modelled.
WatchInit == Start({}) /\ NewTopic /\ NoWatch /\ NoLegacy /\ NoContexts

WatchNext ==
    \/ \E w \in Watches, conf \in WatchConfs :
           cpc[w] = "idle" /\ WatchCall(w, conf) /\ UNCHANGED <<managerVars, topicVars, legacyVars, contextVars>>
    \/ \E w \in Watches : MuSubscribeLoad(w, WatchGroup(wconf[w]), FALSE) /\ Subscribed(w)
    \/ \E w \in Watches : MuSubscribeLookup(w) /\ Subscribed(w)
    \/ \E w \in Watches : MuSubscribeInsert(w) /\ Subscribed(w)
    \/ \E w \in Watches : WatchLogReturn(w)
    \/ \E w \in Watches : WatchReceive(w)
    \/ \E w \in Watches : WatchReceiveClosed(w)
    \/ \E w \in Watches : WatchSend(w) /\ UNCHANGED <<managerVars, topicVars, legacyVars, contextVars>>
    \/ \E w \in Watches : ConsumerRead(w) /\ UNCHANGED <<managerVars, topicVars, legacyVars, contextVars>>
    \/ \E w \in Watches : WatchCancel(w) /\ UNCHANGED <<managerVars, topicVars, legacyVars, contextVars>>
    \/ \E w \in Watches : WatchReturnDone(w) /\ UNCHANGED <<managerVars, topicVars, legacyVars, contextVars>>
    \/ \E c \in Callers : wpc[c] = "none" /\ MuCloseSwap(c) /\ UNCHANGED <<watchVars, legacyVars, contextVars>>
    \/ \E c \in Callers : MuCloseLocked(c) /\ UNCHANGED <<watchVars, legacyVars, contextVars>>
    \/ BroadcastTake /\ UNCHANGED <<watchVars, legacyVars, contextVars>>
    \/ BroadcastSend /\ UNCHANGED <<watchVars, legacyVars, contextVars>>
    \/ CancelRoot
    \/ LogConsume

WatchSpec == WatchInit /\ [][WatchNext]_vars

\* A step of the goroutine of watch w other than leaving through ctx.Done().
WatchStep(w) ==
    \/ MuSubscribeLookup(w) /\ Subscribed(w)
    \/ MuSubscribeInsert(w) /\ Subscribed(w)
    \/ WatchLogReturn(w)
    \/ WatchReceive(w)
    \/ WatchReceiveClosed(w)
    \/ WatchSend(w) /\ UNCHANGED <<managerVars, topicVars, legacyVars, contextVars>>

\* Scheduling: a watch goroutine that can run does; one whose ctx.Done() is
\* closed eventually takes that case of its select (Go's select picks among
\* the ready cases uniformly at random); the log sink keeps taking records.
\* Nothing is assumed of the consumers of the streams, of the publisher or of
\* the callers of cancelFn and Close.
WatchFairness ==
    /\ \A w \in Watches :
           /\ WF_vars(WatchStep(w))
           /\ WF_vars(WatchReturnDone(w) /\ UNCHANGED <<managerVars, topicVars, legacyVars, contextVars>>)
    /\ WF_vars(LogConsume)

WatchFairSpec == WatchSpec /\ WatchFairness

\* ------------------------------------------- the manager of src/manager.go

\* The log sends of startService and shutdown (m.logC <- NewLog(...)) are
\* left out: the daemon's log watcher takes every record, so that a send
\* delays the sender and changes nothing else.

\* close(ch) on a channel closed n times before: the second close panics.
CloseChan(n) == IF n < 2 THEN n + 1 ELSE n

\* A close of a closed channel has panicked: nothing recovers a panic of a
\* startService goroutine or of the shutdown goroutine, the process is gone.
Panicked == \E s \in Services : lcfg[s].ShutdownC > 1 \/ lcfg[s].StateC > 1

\* cfg.setIsStopped(value): the assignment under cfg.mu.
SetIsStopped(cfg, value) == [cfg EXCEPT !.isStopped = value]

\* cfg.setIsShutdown(value): the assignment under cfg.mu.
SetIsShutdown(cfg, value) == [cfg EXCEPT !.isShutdown = value]

\* Lines 87-116, after the switch: an error is logged and the loop continues;
\* NextState == ExitState enters the exit path; otherwise the loop continues.
AfterStage(resp) ==
    IF resp.Error THEN "select"
    ELSE IF resp.NextState = StateExit THEN "exit97" ELSE "select"

\* What the other goroutines and the other subsystems keep.
LegacyFrame == UNCHANGED <<managerVars, topicVars, watchVars, contextVars>>

\* case <-m.ctx.Done(): svcResp = NewResponse(nil, ExitState); the select
\* ends and the for loop starts over.
LSelectDone(s) ==
    /\ ~Panicked
    /\ lpc[s] = "select"
    /\ mctx
    /\ svcResp' = [svcResp EXCEPT ![s] = NewResponse(FALSE, StateExit)]
    /\ UNCHANGED <<mctx, lcfg, lpc, shut, mstart>>
    /\ LegacyFrame

\* default: switch svcResp.NextState: the callback of the stage is called;
\* no case for ExitState, which goes on to the lines after the switch.
LSelectDefault(s) ==
    /\ ~Panicked
    /\ lpc[s] = "select"
    /\ ~mctx
    /\ lpc' = [lpc EXCEPT ![s] =
                  IF svcResp[s].NextState \in {StateInit, StateIdle, StateRun}
                  THEN "callback"
                  ELSE IF svcResp[s].NextState = StateStop THEN "stop"
                  ELSE AfterStage(svcResp[s])]
    /\ UNCHANGED <<mctx, lcfg, svcResp, shut, mstart>>
    /\ LegacyFrame

\* service.init(), idle() or run() returns (err, next); after run() the run
\* policy is enforced (lines 56-74); then the lines after the switch.
LCallbackReturn(s, err, next) ==
    /\ ~Panicked
    /\ lpc[s] = "callback"
    /\ LET ran == svcResp[s].NextState = StateRun
           once == ran /\ lcfg[s].runPolicy = RunOncePolicy
           success == ran /\ lcfg[s].runPolicy = RetryUntilSuccessPolicy /\ ~err
           resp == NewResponse(err, IF once \/ success THEN StateExit ELSE next)
       IN  /\ svcResp' = [svcResp EXCEPT ![s] = resp]
           /\ lcfg' = IF success THEN [lcfg EXCEPT ![s].isStopped = TRUE] ELSE lcfg
           /\ lpc' = [lpc EXCEPT ![s] = AfterStage(resp)]
    /\ UNCHANGED <<mctx, shut, mstart>>
    /\ LegacyFrame

\* case StopState: service.stop() returns; setIsStopped(true); return.
LStopReturn(s) ==
    /\ ~Panicked
    /\ lpc[s] = "stop"
    /\ lcfg' = [lcfg EXCEPT ![s] = SetIsStopped(@, TRUE)]
    /\ lpc' = [lpc EXCEPT ![s] = "returned"]
    /\ UNCHANGED <<mctx, svcResp, shut, mstart>>
    /\ LegacyFrame

\* <-m.stopCh (line 137): the daemon signals the manager to stop, and the
\* goroutine of start() enters m.shutdown().
LStopSignal ==
    /\ ~Panicked
    /\ shut.pc = "watching"
    /\ shut' = [pc |-> "line163", i |-> 1]
    /\ UNCHANGED <<mctx, lcfg, lpc, svcResp, mstart>>
    /\ LegacyFrame

\* The daemon cancels m.ctx.
LCancelCtx ==
    /\ ~Panicked
    /\ ~mctx
    /\ mstart = "wait"
    /\ mctx' = TRUE
    /\ UNCHANGED <<lcfg, lpc, svcResp, shut, mstart>>
    /\ LegacyFrame

\* start, lines 152-156: m.wg.Wait() returns once every startService has
\* returned; close(m.completeCh); return.
LStartReturn ==
    /\ ~Panicked
    /\ mstart = "wait"
    /\ \A s \in Services : lpc[s] = "returned"
    /\ mstart' = "returned"
    /\ UNCHANGED <<mctx, lcfg, lpc, svcResp, shut>>
    /\ LegacyFrame

\* The exit path, lines 94-116, a step at a time:
\*   97-104  if !svcCfg.isStopped { service.stop(); setIsStopped(true) }
\*   107     if !svcCfg.isShutdown, read without the mutex; otherwise return
\*   109     close(svcCfg.ShutdownC)
\*   110     close(svcCfg.StateC)
\*   111-115 svcCfg.setIsShutdown(true); return
LExit(s) ==
    /\ ~Panicked
    /\ lpc[s] \in {"exit97", "exit107", "exit109", "exit110", "exit111"}
    /\ lcfg' = CASE lpc[s] = "exit97" /\ ~lcfg[s].isStopped ->
                        [lcfg EXCEPT ![s] = SetIsStopped(@, TRUE)]
                 [] lpc[s] = "exit109" -> [lcfg EXCEPT ![s].ShutdownC = CloseChan(@)]
                 [] lpc[s] = "exit110" -> [lcfg EXCEPT ![s].StateC = CloseChan(@)]
                 [] lpc[s] = "exit111" -> [lcfg EXCEPT ![s] = SetIsShutdown(@, TRUE)]
                 [] OTHER -> lcfg
    /\ lpc' = [lpc EXCEPT ![s] =
                  CASE lpc[s] = "exit97" -> "exit107"
                    [] lpc[s] = "exit107" ->
                           IF ~lcfg[s].isShutdown THEN "exit109" ELSE "returned"
                    [] lpc[s] = "exit109" -> "exit110"
                    [] lpc[s] = "exit110" -> "exit111"
                    [] lpc[s] = "exit111" -> "returned"]
    /\ UNCHANGED <<mctx, svcResp, shut, mstart>>
    /\ LegacyFrame

\* m.shutdown(), lines 159-174, a step at a time:
\*   161-163 the next service of m.services and if !svcCfg.isShutdown, read
\*           without the mutex; after the last service, return
\*   166     close(svcCfg.ShutdownC)
\*   167     svcCfg.setIsShutdown(true)
\*   168     close(svcCfg.StateC); on to the next service
LShutdown ==
    /\ ~Panicked
    /\ shut.pc \in {"line163", "line166", "line167", "line168"}
    /\ LET s == LegacyServices[shut.i]
       IN  /\ lcfg' = CASE shut.pc = "line166" -> [lcfg EXCEPT ![s].ShutdownC = CloseChan(@)]
                        [] shut.pc = "line167" -> [lcfg EXCEPT ![s] = SetIsShutdown(@, TRUE)]
                        [] shut.pc = "line168" -> [lcfg EXCEPT ![s].StateC = CloseChan(@)]
                        [] OTHER -> lcfg
           /\ shut' = CASE shut.pc = "line163" ->
                               IF shut.i > Len(LegacyServices)
                               THEN [shut EXCEPT !.pc = "done"]
                               ELSE IF ~lcfg[s].isShutdown
                               THEN [shut EXCEPT !.pc = "line166"]
                               ELSE [shut EXCEPT !.i = @ + 1]
                        [] shut.pc = "line166" -> [shut EXCEPT !.pc = "line167"]
                        [] shut.pc = "line167" -> [shut EXCEPT !.pc = "line168"]
                        [] shut.pc = "line168" -> [pc |-> "line163", i |-> shut.i + 1]
    /\ UNCHANGED <<mctx, lpc, svcResp, mstart>>
    /\ LegacyFrame

\* start() has launched the shutdown goroutine and one startService per
\* service (lines 134-146); every service starts at InitState (line 28) and
\* has the run policy it was configured with.
LegacyInit ==
    /\ Start({})
    /\ NoTopic
    /\ NoWatch
    /\ NoContexts
    /\ mctx = FALSE
    /\ lcfg \in [Services -> {[NewServiceConfig EXCEPT !.runPolicy = p] :
                                 p \in {RunUntilStoppedPolicy, RunOncePolicy,
                                        RetryUntilSuccessPolicy}}]
    /\ lpc = [s \in Services |-> "select"]
    /\ svcResp = [s \in Services |-> NewResponse(FALSE, StateInit)]
    /\ shut = [pc |-> "watching", i |-> 1]
    /\ mstart = "wait"

\* A step of the startService goroutine of s.
LServiceStep(s) ==
    \/ LSelectDone(s)
    \/ LSelectDefault(s)
    \/ \E err \in BOOLEAN, next \in States : LCallbackReturn(s, err, next)
    \/ LStopReturn(s)
    \/ LExit(s)

LegacyNext ==
    \/ \E s \in Services : LSelectDone(s)
    \/ \E s \in Services : LSelectDefault(s)
    \/ \E s \in Services, err \in BOOLEAN, next \in States : LCallbackReturn(s, err, next)
    \/ \E s \in Services : LStopReturn(s)
    \/ \E s \in Services : LExit(s)
    \/ LStopSignal
    \/ LShutdown
    \/ LCancelCtx
    \/ LStartReturn

LegacySpec == LegacyInit /\ [][LegacyNext]_vars

\* Scheduling: every goroutine that can take a step does, and a callback
\* that has been called returns.  Nothing is assumed of the daemon: it may
\* never cancel m.ctx and never signal the manager to stop.
LegacyFairSpec ==
    /\ LegacySpec
    /\ \A s \in Services : WF_vars(LServiceStep(s))
    /\ WF_vars(LShutdown)
    /\ WF_vars(LStartReturn)

\* ------------------------- the derived contexts of src/unnamed/part_000

\* The contexts a context is cancelled with: itself and the contexts it was
\* derived from.  newServiceContextWithCancel derives the service's context
\* from its parent with context.WithCancel (line 38).
CtxAncestors(c) ==
    IF c = CtxService THEN {CtxService, CtxRoot}
    ELSE IF c = CtxChild THEN {CtxChild, CtxService, CtxRoot}
    ELSE {c}

\* <-c.Done() is ready: c or a context it derives from has been cancelled.
CtxDone(c) == CtxAncestors(c) \cap cancelled # {}

\* The number of serviceContext values made in all.
MaxContexts == 3

\* The field lists WithFields is called with.
FieldLists == {<<>>, <<"a">>, <<"b">>, <<"a", "b">>}

\* newServiceContextWithCancel(parent, name, logC, icStates): the context is
\* the child context.WithCancel(parent) returns; with a name, fields holds
\* log.String("service", name); the value stores append(fields, fields...).
NewServiceContextWithCancel(parent, name) ==
    LET fields == IF name # "" THEN <<"service">> ELSE <<>>
    IN  [Context |-> CtxService, name |-> name, fields |-> fields \o fields]

\* A WithParent that keeps the receiver's context.
WithParent_Kept(sc, parent) ==
    [Context |-> sc.Context, name |-> sc.name, fields |-> sc.fields]

\* sc.WithParent(parent).
WithParent(sc, parent) ==
    [Context |-> parent, name |-> sc.name, fields |-> sc.fields]

\* A WithFields that opens a cancellation scope of its own.
WithFields_OwnScope(sc, fields) ==
    [Context |-> CtxChild, name |-> sc.name, fields |-> fields \o sc.fields]

\* A WithFields that puts the new fields after the ones carried.
WithFields_Appends(sc, fields) ==
    [Context |-> sc.Context, name |-> sc.name, fields |-> sc.fields \o fields]

\* sc.WithFields(fields...): append(fields, sc.fields...).
WithFields(sc, fields) ==
    [Context |-> sc.Context, name |-> sc.name, fields |-> fields \o sc.fields]

\* A serviceContext value with the call that made it: the value it was
\* called on (index into scs, 0 for the constructor) and the arguments.
Made(sc, op, from, parent, fields) ==
    [sc |-> sc, op |-> op, from |-> from, parent |-> parent, added |-> fields]

\* ctx := scs[i].WithParent(parent).
CallWithParent(i, parent) ==
    /\ Len(scs) < MaxContexts
    /\ scs' = Append(scs, Made(WithParent(scs[i].sc, parent), "WithParent", i, parent, <<>>))
    /\ UNCHANGED cancelled
    /\ UNCHANGED <<managerVars, topicVars, watchVars, legacyVars>>

\* ctx := scs[i].WithFields(fields...).
CallWithFields(i, fields) ==
    /\ Len(scs) < MaxContexts
    /\ scs' = Append(scs, Made(WithFields(scs[i].sc, fields), "WithFields", i, "none", fields))
    /\ UNCHANGED cancelled
    /\ UNCHANGED <<managerVars, topicVars, watchVars, legacyVars>>

\* The cancel function of context c is called.
CancelContext(c) ==
    /\ c \notin cancelled
    /\ cancelled' = cancelled \cup {c}
    /\ UNCHANGED scs
    /\ UNCHANGED <<managerVars, topicVars, watchVars, legacyVars>>

\* One service context, made by newServiceContextWithCancel from the root,
\* without a name or with one.
ContextInit ==
    /\ Start({})
    /\ NoTopic
    /\ NoWatch
    /\ NoLegacy
    /\ cancelled = {}
    /\ \E name \in {"", "s1"} :
           scs = <<Made(NewServiceContextWithCancel(CtxRoot, name), "new", 0, CtxRoot, <<>>)>>

ContextNext ==
    \/ \E i \in DOMAIN scs, parent \in Contexts : CallWithParent(i, parent)
    \/ \E i \in DOMAIN scs, fields \in FieldLists : CallWithFields(i, fields)
    \/ \E c \in Contexts : CancelContext(c)

ContextSpec == ContextInit /\ [][ContextNext]_vars

\* The deferred recover() of Manage has just caught a panic of s.
PanicRecovered(s) == ~obs[s].panicked /\ obs'[s].panicked

\* What Manage keeps for service t, and what it has published for it.
ManageState(t) == <<pc[t], state[t], hasStopped[t], timeout[t], published[t], obs[t]>>

\* C11: a panic of a callback of s ends in Manage(s) returning normally, and
\* the step leaves the root context and the Manage task of every other
\* service exactly where they were.
C11_PanicContained ==
    [][\A s \in Services :
          PanicRecovered(s) =>
              /\ pc'[s] = "returned"
              /\ rootCancelled' = rootCancelled
              /\ \A t \in Services \ {s} : ManageState(t)' = ManageState(t)]_vars

\* s1 has panicked and its Manage has returned while s2 is inside its Run.
C11_Witness ==
    /\ obs["s1"].panicked
    /\ pc["s1"] = "returned"
    /\ ~rootCancelled
    /\ pc["s2"] = "callback"
    /\ state["s2"] = StateRun
\* C12: a Subscribe or Unsubscribe call never panics, whatever Close does
\* meanwhile: it never sends on the request channel once Close has closed it.
C12_NoSendOnClosedRequestChannel ==
    \A c \in Callers : cpc[c] # "panicked"

\* C13: a publish attempted after Close has completed does not panic: the
\* publisher never sends on a closed publish channel.
C13_PublishAfterCloseDiscarded ==
    ~(th.closeNil > 0 /\ ppc = "panicked")
\* C14: once a Close has returned nil the topic holds no consumer group and
\* every delivery channel a Subscribe has returned is closed.
C14_ClosedTopicHoldsNoGroup ==
    th.closeNil > 0 =>
        /\ Registered = {}
        /\ \A i \in th.handedOut : subs[i].closes > 0

\* C15: every open delivery channel a Subscribe has returned is the one
\* registered in the map for its group: a group never has two channels.
C15_HandedOutIsRegistered ==
    \A i \in th.handedOut : subs[i].closes = 0 => subscribers[subs[i].group] = i
\* The Unsubscribe of caller c returns in this step (mutex topic).
MuUnsubscribeReturns(c) ==
    cpc[c] = "locked" /\ call[c].op = "Unsubscribe" /\ cpc'[c] = "idle"

\* C16: an Unsubscribe that finds its group removes it and closes its delivery
\* channel, once; one that does not find it (a second Unsubscribe) returns
\* GroupUnknown and closes nothing; no delivery channel is ever closed twice,
\* by Unsubscribe or by Close.
C16_UnsubscribeClosesOnce ==
    [][/\ \A i \in DOMAIN subs' : subs'[i].closes <= 1
       /\ \A c \in Callers :
             MuUnsubscribeReturns(c) =>
                 LET g == call[c].group
                     sub == subscribers[g]
                 IN IF sub # 0
                    THEN /\ ret'.err = NoErr
                         /\ subscribers' = [subscribers EXCEPT ![g] = 0]
                         /\ subs[sub].closes = 0
                         /\ subs' = [subs EXCEPT ![sub].closes = 1]
                    ELSE /\ ret'.err = ErrGroupUnknown
                         /\ subscribers' = subscribers
                         /\ subs' = subs]_vars

\* A second Unsubscribe has returned GroupUnknown for a group whose channel
\* the first one closed.
C16_Witness ==
    /\ ret.op = "Unsubscribe"
    /\ ret.err = ErrGroupUnknown
    /\ ~closed
    /\ \E i \in DOMAIN subs : subs[i].closes = 1

\* The Close calls that have passed the one-shot guard and not yet returned.
ClosePassed == {c \in Callers : call[c].op = "Close"}

\* C17: of all the Close calls on a topic at most one passes the guard and
\* returns nil, every other one returns AlreadyClosed, and no delivery channel
\* is closed a second time.
C17_CloseOneShot ==
    /\ th.closeNil + Cardinality(ClosePassed) <= 1
    /\ ret.op = "Close" => ret.err \in {NoErr, ErrAlreadyClosed}
    /\ ret.op = "Close" /\ ret.err = ErrAlreadyClosed => closed
    /\ \A i \in DOMAIN subs : subs[i].closes < 2

\* One Close has returned nil, having closed a delivery channel, and a later
\* one has returned AlreadyClosed.
C17_Witness ==
    /\ th.closeNil = 1
    /\ ret.op = "Close"
    /\ ret.err = ErrAlreadyClosed
    /\ \E i \in DOMAIN subs : subs[i].closes = 1
\* The number of times message m was sent to a subscriber with send log q.
Sends(q, m) == Cardinality({k \in DOMAIN q : q[k] = m})

C19_SendsInTakeOrder ==
    /\ \A i \in DOMAIN subs :
           \A j, k \in DOMAIN subs[i].sent : j < k => subs[i].sent[j] <= subs[i].sent[k]
    /\ \A g \in bsends : g.msg = taken

\* A subscriber has been sent two different messages.
C19_Witness ==
    \E i \in DOMAIN subs :
        \E j, k \in DOMAIN subs[i].sent : subs[i].sent[j] # subs[i].sent[k]

\* C20: with the broadcaster stuck, a Subscribe or Unsubscribe call that
\* waits for its answer can leave through the Done case of its select.
C20_StuckBroadcasterTimesOut ==
    \A c \in Callers :
        /\ bpc = "stuck"
        /\ cpc[c] = "response"
        /\ call[c].op \in {"Subscribe", "Unsubscribe"}
        /\ responseC[c] = <<>>
        => ENABLED ResponseTimeout(c)

\* C29: Log cannot hold Manage back once the context is cancelled: a callback
\* that returns an error after cancellation gets through its sctx.Log call
\* whatever the log channel holds, and Manage goes on towards Exit.
C29_LogReturnsOnceCancelled ==
    \A s \in Services :
        pc[s] = "callback" /\ Done(s) => ENABLED CallbackReturn(s, TRUE)

\* The predicate of a watch on one name: Entering holds when the name is in
\* the snapshot in the target state, Exiting when it is in the snapshot in
\* another state, and no other action holds.
Holds(action, target, states, name) ==
    \/ action = Entering /\ name \in DOMAIN states /\ states[name] = target
    \/ action = Exiting /\ name \in DOMAIN states /\ states[name] # target

\* The names of a list for which it holds.
Holding(conf, states) ==
    {n \in {conf.names[i] : i \in DOMAIN conf.names} :
        Holds(conf.action, conf.target, states, n)}

\* Watch w, given the snapshot `states`, goes on to send exactly the entries
\* of the names in `keep`.
EmitsExactly(w, states, keep) ==
    /\ WatchReceiveStates(w, states)
    /\ wpc'[w] = "send"
    /\ wout'[w] = [n \in keep |-> states[n]]

\* Watch w, given the snapshot `states`, goes on to send.
EmitsOn(w, states) == WatchReceiveStates(w, states) /\ wpc'[w] = "send"

AllHold(conf, states) ==
    \A i \in DOMAIN conf.names : Holds(conf.action, conf.target, states, conf.names[i])

\* Watch w has emitted: a map of it is in the stream or with the consumer.
HasEmitted(w) == stream[w].buf # <<>> \/ wgot[w] # <<>>

\* C24: WatchAllServices emits only for a snapshot in which every name of the
\* list satisfies the predicate, and it keeps collecting: the send of an
\* emission takes it back to its select, it returns only with its context
\* done, and once it has emitted it emits again for every snapshot it
\* receives in which the all-predicate holds.
C24_AllEmitsAndKeepsCollecting ==
    \A w \in Watches :
        wconf[w].kind = "AllServices"
        => /\ wpc[w] = "select"
              => \A states \in Snapshots :
                     /\ (ENABLED EmitsOn(w, states)) => AllHold(wconf[w], states)
                     /\ HasEmitted(w) /\ AllHold(wconf[w], states)
                        => ENABLED EmitsOn(w, states)
           /\ wpc[w] = "send" /\ stream[w].buf = <<>>
              => ENABLED (WatchSend(w) /\ wpc'[w] = "select")
           /\ wpc[w] = "returned" => WatchDone(w)

\* A WatchAllServices watch of two services whose consumer has read one
\* emission, with a second one in the stream, back in its select.
C24_Witness ==
    \E w \in Watches :
        /\ wconf[w].kind = "AllServices"
        /\ Len(wconf[w].names) = 2
        /\ wgot[w] # <<>>
        /\ stream[w].buf # <<>>
        /\ DOMAIN Head(stream[w].buf) = Services
        /\ wpc[w] = "select"
        /\ ~WatchDone(w)

\* C25 as stated: with an action that is neither Entering nor Exiting, a
\* WatchAnyServices or WatchAllServices watch emits for no snapshot, whatever
\* its list of names.
C25_OtherActionNeverEmits ==
    \A w \in Watches : \A states \in Snapshots :
        /\ wconf[w].kind \in {"AnyServices", "AllServices"}
        /\ wconf[w].action \notin {Entering, Exiting}
        /\ wpc[w] = "select"
        => ~ENABLED EmitsOn(w, states)

\* C25, amended: with an action that is neither Entering nor Exiting,
\* WatchAnyServices emits for no snapshot, and WatchAllServices emits only
\* when it was given no names, and then the empty snapshot for every snapshot.
C25_OtherActionEmitsOnlyWithoutNames ==
    \A w \in Watches : \A states \in Snapshots :
        /\ wconf[w].kind \in {"AnyServices", "AllServices"}
        /\ wconf[w].action \notin {Entering, Exiting}
        /\ wpc[w] = "select"
        => IF wconf[w].kind = "AllServices" /\ wconf[w].names = <<>>
           THEN ENABLED EmitsExactly(w, states, {})
           ELSE ~ENABLED EmitsOn(w, states)

\* A WatchAllServices watch with another action and no names has had one
\* empty snapshot read by its consumer and is about to send the next.
C25_Witness ==
    \E w \in Watches :
        /\ wconf[w].kind = "AllServices"
        /\ wconf[w].action \notin {Entering, Exiting}
        /\ wconf[w].names = <<>>
        /\ wgot[w] # <<>>
        /\ wpc[w] = "send"
        /\ DOMAIN wstates[w] = Services
        /\ DOMAIN wout[w] = {}

\* The entries of a snapshot whose names are in `keep`.
Restrict(states, keep) == [n \in DOMAIN states \cap keep |-> states[n]]

\* What a ServiceFilter lets through.
Passing(filter, states) ==
    IF filter.Mode = None \/ filter.Names = {} THEN states
    ELSE IF filter.Mode = Include THEN Restrict(states, filter.Names)
    ELSE Restrict(states, Services \ filter.Names)

\* C26: WatchAllStates sends, for every received snapshot, the snapshot
\* unchanged when the mode is None or Names is empty, its entries whose name
\* is in Names for Include, and those whose name is not for Exclude.
C26_AllStatesFilter ==
    \A w \in Watches : \A states \in Snapshots :
        wconf[w].kind = "AllStates" /\ wpc[w] = "select"
        => ENABLED (/\ WatchReceiveStates(w, states)
                    /\ wpc'[w] = "send"
                    /\ wout'[w] = Passing(wconf[w].filter, states))

\* An Include watch and an Exclude watch each about to send a proper part of
\* a snapshot of two services.
C26_Witness ==
    \E w \in Watches :
        /\ wconf[w].kind = "AllStates"
        /\ wconf[w].filter.Mode \in {Include, Exclude}
        /\ wpc[w] = "send"
        /\ DOMAIN wstates[w] = Services
        /\ Cardinality(DOMAIN wout[w]) = 1

\* C21: a watch that has ended, through its cancelFn or through the
\* cancellation of the service context, has unsubscribed its consumer group:
\* the topic no longer holds the subscriber the watch received from.
C21_EndedWatchUnsubscribed ==
    \A w \in Watches :
        wpc[w] = "returned" /\ wsub[w] # 0 /\ WatchDone(w) /\ ~closed
        => wsub[w] \notin Registered

\* C22: once the cancelFn of a watch has been called and its goroutine has
\* ended (the service context is not cancelled and the topic has not closed
\* the subscriber, so the cancelFn is what ended it), the stream of the watch
\* is closed.
C22_StreamClosedAfterCancel ==
    \A w \in Watches :
        /\ wpc[w] = "returned"
        /\ wcancel[w]
        /\ wsub[w] # 0
        /\ subs[wsub[w]].closes = 0
        /\ ~Done(Owner)
        => stream[w].closed

\* C30: the cancelFn of a watch cancels that watch alone, neither the service
\* context nor another watch of it; and with the service context cancelled
\* every watch in its loop can leave through ctx.Done().
C30_CancelScopes ==
    /\ [][\A w \in Watches :
            WatchCancel(w)
            => /\ WatchDone(w)'
               /\ Done(Owner)' = Done(Owner)
               /\ \A v \in Watches \ {w} : WatchDone(v)' = WatchDone(v)]_vars
    /\ [](\A w \in Watches :
            Done(Owner) /\ wpc[w] \in {"select", "send"}
            => WatchDone(w) /\ ENABLED WatchReturnDone(w))

\* One watch has ended through its cancelFn while another of the same
\* service context is still in its loop, not cancelled.
C30_Witness ==
    \E w, v \in Watches :
        /\ wpc[w] = "returned" /\ wcancel[w] /\ wsub[w] # 0
        /\ wpc[v] = "select" /\ ~WatchDone(v)

\* Watch w forwards every snapshot unchanged.
Forwards(w) == wconf[w] = AllStatesConf([Mode |-> None, Names |-> {}])

\* Nothing is on its way to the consumer of watch w: every goroutine of the
\* broadcaster has sent, the channel of the subscriber and the stream are
\* empty, and the watch waits in its outer select.
Drained(w) ==
    /\ bsends = {}
    /\ wpc[w] = "select"
    /\ subs[wsub[w]].buf = <<>>
    /\ stream[w].buf = <<>>

\* C28: a WatchAllStates watch with Mode None, subscribed (BufferSize 1,
\* DropOldest) when the last snapshot was published, not cancelled and with
\* the topic open, has handed that snapshot to its consumer once publishing has stopped and the
\* consumer has read all there is to read.
C28_LastSnapshotReceived ==
    \A w \in Watches :
        /\ Forwards(w)
        /\ Drained(w)
        /\ taken > 0
        /\ wsub[w] \in th.snapshot
        /\ ~WatchDone(w)
        /\ ~closed
        => wgot[w] = <<Published(taken)>>

\* The same for a watch that is the only subscriber of the topic and the
\* only watch of its group.
C28_SoleWatch ==
    \A w \in Watches :
        /\ Forwards(w)
        /\ Drained(w)
        /\ taken > 0
        /\ wsub[w] \in th.snapshot
        /\ ~WatchDone(w)
        /\ ~closed
        /\ Len(subs) = 1
        /\ \A v \in Watches \ {w} : wsub[v] = 0
        => wgot[w] = <<Published(taken)>>

\* The sole watch has handed on the second of two snapshots.
C28_SoleWitness ==
    \E w \in Watches :
        /\ Forwards(w) /\ Drained(w) /\ taken = 2 /\ Len(subs) = 1
        /\ subs[wsub[w]].sent = <<1, 2>>
        /\ wgot[w] = <<Published(2)>>

\* C27: a WatchAllServices watch with no names emits the empty snapshot for
\* every snapshot it is given.
C27_NoNamesAlwaysEmitsEmpty ==
    \A w \in Watches : \A states \in Snapshots :
        wconf[w].kind = "AllServices" /\ wconf[w].names = <<>> /\ wpc[w] = "select"
        => ENABLED EmitsExactly(w, states, {})

\* Such a watch has sent the empty snapshot to its stream and is about to
\* send it again for a snapshot of both services.
C27_Witness ==
    \E w \in Watches :
        /\ wconf[w].kind = "AllServices" /\ wconf[w].names = <<>>
        /\ stream[w].buf = <<NoStates>>
        /\ wpc[w] = "send"
        /\ DOMAIN wstates[w] = Services
        /\ wout[w] = NoStates

\* A list that names some service more than once.
Repeats(names) == \E i, j \in DOMAIN names : i # j /\ names[i] = names[j]

\* C40: a WatchAllServices watch whose list names a service more than once
\* emits for every received snapshot in which every listed name satisfies
\* the predicate.
C40_RepeatedNamesStillEmit ==
    \A w \in Watches : \A states \in Snapshots :
        /\ wconf[w].kind = "AllServices"
        /\ Repeats(wconf[w].names)
        /\ wpc[w] = "select"
        /\ AllHold(wconf[w], states)
        => ENABLED EmitsOn(w, states)

\* Two maps with the same entries.
SameStates(f, g) == DOMAIN f = DOMAIN g /\ \A n \in DOMAIN f : f[n] = g[n]

\* Watches w and v of the service are both in their loops with the
\* subscription they were given, made by different calls of one consumer
\* group: a WatchAllServices and a WatchAnyServices with the same action and
\* target.
ActiveTogether(w, v) ==
    /\ w # v
    /\ wsub[w] # 0 /\ wsub[v] # 0
    /\ wconf[w] # wconf[v]
    /\ WatchGroup(wconf[w]) = WatchGroup(wconf[v])
    /\ wpc[w] = "select" /\ wpc[v] \in {"select", "send"}
    /\ ~WatchDone(w) /\ ~WatchDone(v)

\* C35: two such watches do not interfere: once the last snapshot delivered
\* to the service has come to rest (nothing in flight, the consumers have
\* read all there is), a watch whose predicate it satisfies has emitted it
\* on its stream.
C35_ConcurrentWatchesBothEvaluate ==
    \A w, v \in Watches :
        /\ ActiveTogether(w, v)
        /\ ~closed
        /\ taken > 0
        /\ wsub[w] \in th.snapshot
        /\ Drained(w)
        /\ Emits(wconf[w], Published(taken))
        => /\ wgot[w] # <<>>
           /\ SameStates(wgot[w][1], Out(wconf[w], Published(taken)))

\* The Subscribe of watch w has failed: it has an error to log, or has
\* returned without ever holding a subscriber.
SubscribeFailed(w) == wpc[w] = "log" \/ (wpc[w] = "returned" /\ wsub[w] = 0)

\* C34: a watch whose Subscribe returns an error goes on to log it at error
\* level and returns; nothing is ever sent on its stream, and neither the
\* failure nor the return cancels the service context.
C34_FailedSubscribeLogsAndReturns ==
    /\ [][\A w \in Watches :
            /\ wpc[w] = "subscribe" /\ wpc'[w] # "subscribe"
               => /\ wpc'[w] = IF ret'.err = NoErr THEN "select" ELSE "log"
                  /\ Done(Owner)' = Done(Owner)
            /\ wpc[w] = "log" /\ wpc'[w] # "log"
               => /\ wpc'[w] = "returned"
                  /\ logC' = Append(logC, DaemonLog(Owner, LevelError, MsgSubscribeFailed))
                  /\ Done(Owner)' = Done(Owner)
                  /\ stream' = stream]_vars
    /\ [](\A w \in Watches :
            SubscribeFailed(w) => stream[w].buf = <<>> /\ wgot[w] = <<>>)

\* The topic was closed, a watch failed to subscribe, logged it and
\* returned; the service context is not cancelled.
C34_Witness ==
    \E w \in Watches :
        /\ closed
        /\ wpc[w] = "returned" /\ wsub[w] = 0
        /\ lastLog[Owner] = DaemonLog(Owner, LevelError, MsgSubscribeFailed)
        /\ ~Done(Owner)

\* The goroutine of watch w is running: in its Subscribe call, about to log
\* its failure, or in its loop.
WatchRunning(w) ==
    \/ wpc[w] = "subscribe" /\ cpc[w] # "idle"
    \/ wpc[w] \in {"log", "select", "send"}

\* C39: once the service context is cancelled, every running watch goroutine
\* made from it eventually returns, whether or not its stream is read and
\* whatever the topic still publishes.
C39_WatchesEndAfterCancel ==
    \A w \in Watches : (Done(Owner) /\ WatchRunning(w)) ~> (wpc[w] = "returned")

\* The service context is cancelled and a watch has returned with an
\* emission in its stream that the consumer never read, nor anything before.
C39_Witness ==
    \E w \in Watches :
        /\ Done(Owner)
        /\ wpc[w] = "returned" /\ wsub[w] # 0
        /\ stream[w].buf # <<>>
        /\ wgot[w] = <<>>
        /\ subs[wsub[w]].buf # <<>>

\* C36: the broadcaster never attempts a send on a subscriber whose delivery
\* channel has been closed: every sub.send(msg) a broadcast goroutine runs
\* finds its subscriber open.
C36_NoSendToClosedSubscriber ==
    [][\A i \in DOMAIN subs :
          Len(subs'[i].sent) > Len(subs[i].sent) => subs[i].closes = 0]_vars

\* C37: a service's ShutdownC and StateC are closed at most once, however
\* manager.shutdown() and the exit path of the service's startService
\* goroutine interleave.
C37_ChannelsClosedAtMostOnce ==
    \A s \in Services : lcfg[s].ShutdownC <= 1 /\ lcfg[s].StateC <= 1

\* Every startService goroutine has returned and start() has.
StartReturned == mstart = "returned" /\ \A s \in Services : lpc[s] = "returned"

\* C38: once m.ctx is cancelled every startService goroutine eventually
\* returns and manager.start() eventually returns (unless a close of a closed
\* channel has ended the process first).
C38_StartReturnsAfterCancel == mctx ~> (StartReturned \/ Panicked)

\* The context values neither derived from c nor among those c derives from.
Unrelated(c) == {d \in Contexts : d \notin CtxAncestors(c) /\ c \notin CtxAncestors(d)}

\* The service contexts WithParent has returned.
ByWithParent == {i \in DOMAIN scs : scs[i].op = "WithParent"}

\* The service contexts WithFields has returned.
ByWithFields == {i \in DOMAIN scs : scs[i].op = "WithFields"}

\* C31: the context sc.WithParent(p) returns is done if and only if p is; for
\* a p outside sc's own line of contexts, cancelling sc does not cancel it and
\* cancelling p does not cancel sc.
C31_WithParentFollowsParent ==
    /\ [](\A i \in ByWithParent :
             CtxDone(scs[i].sc.Context) <=> CtxDone(scs[i].parent))
    /\ [][\A i \in ByWithParent :
             LET ctx == scs[i].sc.Context
                 sc == scs[scs[i].from].sc.Context
             IN  scs[i].parent \in Unrelated(sc) =>
                     /\ cancelled' = cancelled \cup {sc} => (CtxDone(ctx)' <=> CtxDone(ctx))
                     /\ cancelled' = cancelled \cup {scs[i].parent} =>
                            (CtxDone(sc)' <=> CtxDone(sc))]_vars

\* sc.WithParent(p) with p apart from sc: sc has been cancelled and the
\* context returned is not done.
C31_Witness ==
    \E i \in ByWithParent :
        LET sc == scs[scs[i].from].sc.Context
        IN  /\ scs[i].parent \in Unrelated(sc)
            /\ CtxDone(sc) /\ ~CtxDone(scs[i].sc.Context)

\* C32: the context sc.WithFields(...) returns is done exactly when sc is.
C32_WithFieldsSharesScope ==
    \A i \in ByWithFields :
        CtxDone(scs[i].sc.Context) <=> CtxDone(scs[scs[i].from].sc.Context)

\* A context made by WithFields, done together with the one it was made from.
C32_Witness ==
    \E i \in ByWithFields :
        CtxDone(scs[i].sc.Context) /\ CtxDone(scs[scs[i].from].sc.Context)

====
